---- MODULE Spec2Model ----
(***************************************************************************)
(* Model of the arxiv-bucket ingestion core: file-name grammars, archive   *)
(* extraction safety, and the submission / bulk-archive registrars.        *)
(*                                                                         *)
(* Text is modelled as a sequence of one-character strings, so that the    *)
(* regular expressions and path functions of the source are computed, not  *)
(* assumed.                                                                *)
(***************************************************************************)
EXTENDS Integers, Sequences, FiniteSets, TLC

(***************************************************************************)
(* Characters and text helpers                                             *)
(***************************************************************************)
DigitSeq == <<"0", "1", "2", "3", "4", "5", "6", "7", "8", "9">>

LowerSeq == <<"a", "b", "c", "d", "e", "f", "g", "h", "i", "j", "k", "l", "m",
              "n", "o", "p", "q", "r", "s", "t", "u", "v", "w", "x", "y", "z">>

UpperSeq == <<"A", "B", "C", "D", "E", "F", "G", "H", "I", "J", "K", "L", "M",
              "N", "O", "P", "Q", "R", "S", "T", "U", "V", "W", "X", "Y", "Z">>

Range(s) == {s[i] : i \in DOMAIN s}

IsDigit(c) == c \in Range(DigitSeq)

IsLower(c) == c \in Range(LowerSeq)

IsUpper(c) == c \in Range(UpperSeq)

IndexIn(seq, c) == CHOOSE i \in DOMAIN seq : seq[i] = c

DigitVal(c) == IndexIn(DigitSeq, c) - 1

\* str.lower() on one character
LowerChar(c) == IF IsUpper(c) THEN LowerSeq[IndexIn(UpperSeq, c)] ELSE c

\* str.lower()
Lower(s) == [i \in DOMAIN s |-> LowerChar(s[i])]

AllDigits(s) == \A i \in DOMAIN s : IsDigit(s[i])

\* int() of a two-digit field
IntOf2(s) == 10 * DigitVal(s[1]) + DigitVal(s[2])

\* position of the last occurrence of c in s, 0 when absent
LastIndexOf(s, c) ==
    IF \E i \in DOMAIN s : s[i] = c
    THEN CHOOSE i \in DOMAIN s : s[i] = c /\ \A j \in DOMAIN s : s[j] = c => j <= i
    ELSE 0

StartsWith(s, p) == Len(s) >= Len(p) /\ SubSeq(s, 1, Len(p)) = p

\* the text a '$' anchored pattern is matched against: Python's '$' also
\* matches just before one trailing newline
DollarStrip(s) ==
    IF Len(s) > 0 /\ s[Len(s)] = "\n" THEN SubSeq(s, 1, Len(s) - 1) ELSE s

(***************************************************************************)
(* FileName                                                                *)
(***************************************************************************)
MAX_FILENAME_LENGTH == 250

\* os.path.basename: everything after the last '/'
get_file_basename(path) == SubSeq(path, LastIndexOf(path, "/") + 1, Len(path))

\* os.path.splitext: <<root, ext>>; the extension starts at the last '.' of
\* the basename unless only dots precede it there
SplitExt(path) ==
    LET sep == LastIndexOf(path, "/")
        dot == LastIndexOf(path, ".")
    IN  IF dot > sep /\ (\E i \in (sep + 1)..(dot - 1) : path[i] # ".")
        THEN <<SubSeq(path, 1, dot - 1), SubSeq(path, dot, Len(path))>>
        ELSE <<path, <<>> >>

get_file_extension(path) == SplitExt(path)[2]

\* str.split('/')
RECURSIVE SplitSlash(_)
SplitSlash(s) ==
    IF \A i \in DOMAIN s : s[i] # "/"
    THEN <<s>>
    ELSE LET k == CHOOSE i \in DOMAIN s : s[i] = "/" /\ \A j \in 1..(i - 1) : s[j] # "/"
         IN  <<SubSeq(s, 1, k - 1)>> \o SplitSlash(SubSeq(s, k + 1, Len(s)))

\* a character of the class [\w\-.+=]
IsAllowedChar(c) ==
    IsDigit(c) \/ IsLower(c) \/ IsUpper(c) \/ c \in {"_", "-", ".", "+", "="}

\* re.match(r'^[\w\-.+=]+$', component)
MatchesAllowedPattern(component) ==
    LET t == DollarStrip(component)
    IN  Len(t) > 0 /\ \A i \in DOMAIN t : IsAllowedChar(t[i])

is_path_characters_allowed(path) ==
    \A i \in DOMAIN SplitSlash(path) :
        LET component == SplitSlash(path)[i]
        IN  /\ MatchesAllowedPattern(component)
            /\ component \notin {<<>>, <<".">>, <<".", ".">>}

\* os.path.join(a, b): an absolute b replaces a
PathJoin(a, b) ==
    IF Len(b) > 0 /\ b[1] = "/" THEN b
    ELSE IF Len(a) = 0 \/ a[Len(a)] = "/" THEN a \o b
    ELSE a \o <<"/">> \o b

\* os.path.normpath on the components of a path: '' and '.' are dropped and
\* '..' removes the component before it (kept when a relative path has none)
RECURSIVE NormComponents(_, _, _)
NormComponents(comps, acc, isAbs) ==
    IF comps = <<>> THEN acc
    ELSE LET c == Head(comps)
             rest == Tail(comps)
         IN  IF c = <<>> \/ c = <<".">>
             THEN NormComponents(rest, acc, isAbs)
             ELSE IF c = <<".", ".">>
             THEN IF Len(acc) > 0 /\ acc[Len(acc)] # <<".", ".">>
                  THEN NormComponents(rest, SubSeq(acc, 1, Len(acc) - 1), isAbs)
                  ELSE IF isAbs
                  THEN NormComponents(rest, acc, isAbs)
                  ELSE NormComponents(rest, Append(acc, c), isAbs)
             ELSE NormComponents(rest, Append(acc, c), isAbs)

\* the working directory os.path.abspath resolves relative paths against
CwdComponents == << <<"w", "o", "r", "k">> >>

\* os.path.abspath(os.path.normpath(path)) as a list of components below '/'
AbsComponents(path) ==
    IF Len(path) > 0 /\ path[1] = "/"
    THEN NormComponents(SplitSlash(path), <<>>, TRUE)
    ELSE NormComponents(CwdComponents \o NormComponents(SplitSlash(path), <<>>, FALSE),
                        <<>>, TRUE)

\* commonpath([base]) == commonpath([base, target])
is_path_within_directory(base, target) ==
    LET b == AbsComponents(base)
        t == AbsComponents(target)
    IN  Len(t) >= Len(b) /\ SubSeq(t, 1, Len(b)) = b

TempDir == <<"t", "e", "m", "p">>

is_filename_allowed(path) ==
    LET temp_path == PathJoin(TempDir, path)
        is_within_temp_directory == is_path_within_directory(TempDir, temp_path)
        has_valid_characters == is_path_characters_allowed(path)
        n == Len(path)
        is_length_valid == (0 < n) /\ (n < MAX_FILENAME_LENGTH)
    IN  is_within_temp_directory /\ has_valid_characters /\ is_length_valid

\* is_filename_list_unique(list, is_case_insensitive=True, is_filename_only=False)
is_filename_list_unique(filename_list) ==
    LET processed == [i \in DOMAIN filename_list |-> Lower(filename_list[i])]
    IN  Cardinality(Range(processed)) = Len(processed)

(***************************************************************************)
(* Naming grammars: SubmissionHandler and BulkArchiveHandler               *)
(***************************************************************************)
NoMatch == <<>>

GzExt == <<".", "g", "z">>

PdfExt == <<".", "p", "d", "f">>

TarExt == <<".", "t", "a", "r">>

\* re.match(r'^([a-z\-]+)(\d{2})(\d{2})(\d{3})$', basename_no_ext)
parse_old_style_submission_filename(filename) ==
    LET basename == get_file_basename(filename)
        basename_no_ext == SplitExt(basename)[1]
        ext == SplitExt(basename)[2]
        t == DollarStrip(basename_no_ext)
        n == Len(t)
    IN  IF /\ ext \in {GzExt, PdfExt}
           /\ n >= 8
           /\ AllDigits(SubSeq(t, n - 6, n))
           /\ \A i \in 1..(n - 7) : IsLower(t[i]) \/ t[i] = "-"
        THEN <<SubSeq(t, 1, n - 7), SubSeq(t, n - 6, n - 5),
               SubSeq(t, n - 4, n - 3), SubSeq(t, n - 2, n)>>
        ELSE NoMatch

\* re.match(r'^(\d{2})(\d{2})\.(\d{4,5})$', basename_no_ext)
parse_current_style_submission_filename(filename) ==
    LET basename == get_file_basename(filename)
        basename_no_ext == SplitExt(basename)[1]
        ext == SplitExt(basename)[2]
        t == DollarStrip(basename_no_ext)
        n == Len(t)
    IN  IF /\ ext \in {GzExt, PdfExt}
           /\ n \in {9, 10}
           /\ AllDigits(SubSeq(t, 1, 4))
           /\ t[5] = "."
           /\ AllDigits(SubSeq(t, 6, n))
        THEN <<SubSeq(t, 1, 2), SubSeq(t, 3, 4), SubSeq(t, 6, n)>>
        ELSE NoMatch

\* mm.isdigit() and 1 <= int(mm) <= 12
MonthInRange(mm) == AllDigits(mm) /\ 1 <= IntOf2(mm) /\ IntOf2(mm) <= 12

is_submission_filename(filename) ==
    LET old == parse_old_style_submission_filename(filename)
        current == parse_current_style_submission_filename(filename)
    IN  IF old # NoMatch THEN MonthInRange(old[3])
        ELSE IF current # NoMatch THEN MonthInRange(current[2])
        ELSE FALSE

BaseUrl == <<"h", "t", "t", "p", "s", ":", "/", "/", "a", "r", "x", "i", "v", ".",
             "o", "r", "g", "/", "a", "b", "s", "/">>

\* NoMatch stands for the ValueError raised when neither grammar matches
generate_url_for_submission_filename(filename) ==
    LET old == parse_old_style_submission_filename(filename)
        current == parse_current_style_submission_filename(filename)
    IN  IF old # NoMatch
        THEN BaseUrl \o old[1] \o <<"/">> \o old[2] \o old[3] \o old[4]
        ELSE IF current # NoMatch
        THEN BaseUrl \o current[1] \o current[2] \o <<".">> \o current[3]
        ELSE NoMatch

BulkPrefix == <<"a", "r", "X", "i", "v", "_", "s", "r", "c", "_">>

\* re.match(r'^arXiv_src_(\d{2})(\d{2})_(\d{3})\.tar$', basename)
parse_bulk_archive_filename(filename) ==
    LET t == DollarStrip(get_file_basename(filename))
    IN  IF /\ Len(t) = 22
           /\ SubSeq(t, 1, 10) = BulkPrefix
           /\ AllDigits(SubSeq(t, 11, 14))
           /\ t[15] = "_"
           /\ AllDigits(SubSeq(t, 16, 18))
           /\ SubSeq(t, 19, 22) = TarExt
        THEN <<SubSeq(t, 11, 12), SubSeq(t, 13, 14), SubSeq(t, 16, 18)>>
        ELSE NoMatch

is_bulk_archive_filename(filename) ==
    LET parts == parse_bulk_archive_filename(filename)
    IN  parts # NoMatch /\ MonthInRange(parts[2])

BaseUri == <<"s", "3", ":", "/", "/", "a", "r", "x", "i", "v", "/", "s", "r", "c", "/">>

\* a URI that keeps the directory of the name
generate_uri_for_bulk_archive_filename_whole_path(filename) ==
    IF ~is_bulk_archive_filename(filename) THEN NoMatch ELSE BaseUri \o filename

\* NoMatch stands for the ValueError raised for a name outside the scheme
generate_uri_for_bulk_archive_filename(filename) ==
    IF ~is_bulk_archive_filename(filename) THEN NoMatch
    ELSE BaseUri \o get_file_basename(filename)

(***************************************************************************)
(* File types and the per-format handlers                                  *)
(***************************************************************************)
FILE_TYPE_UNKNOWN == "UNKNOWN"

\* ArchiveHandler._file_extension_map, as <<extension, file types>> pairs
ArchiveExtensionMap ==
    << <<<<".", "g", "z">>, <<"ARCHIVE_GZ", "ARCHIVE_TGZ">>>>,
       <<<<".", "t", "a", "r">>, <<"ARCHIVE_TAR">>>>,
       <<<<".", "t", "g", "z">>, <<"ARCHIVE_TGZ">>>> >>

\* ImageHandler._file_extension_map
ImageExtensionMap ==
    << <<<<".", "b", "m", "p">>, <<"IMAGE_BMP">>>>,
       <<<<".", "g", "i", "f">>, <<"IMAGE_GIF">>>>,
       <<<<".", "i", "c", "o">>, <<"IMAGE_ICO">>>>,
       <<<<".", "j", "p", "e", "g">>, <<"IMAGE_JPG">>>>,
       <<<<".", "j", "p", "g">>, <<"IMAGE_JPG">>>>,
       <<<<".", "p", "n", "g">>, <<"IMAGE_PNG">>>>,
       <<<<".", "t", "i", "f">>, <<"IMAGE_TIFF">>>>,
       <<<<".", "t", "i", "f", "f">>, <<"IMAGE_TIFF">>>> >>

\* PdfHandler: the extension map of the PDF handler
PdfExtensionMap ==
    << <<<<".", "p", "d", "f">>, <<"PDF">>>> >>

\* PostscriptHandler: the extension map of the PostScript handler
PostscriptExtensionMap ==
    << <<<<".", "p", "s">>, <<"POSTSCRIPT_PS">>>>,
       <<<<".", "e", "p", "s">>, <<"POSTSCRIPT_EPS">>>>,
       <<<<".", "e", "p", "s", "f">>, <<"POSTSCRIPT_EPSF">>>>,
       <<<<".", "e", "p", "s", "i">>, <<"POSTSCRIPT_EPSI">>>> >>

\* TexHandler._file_extension_map
TexExtensionMap ==
    << <<<<".", "a", "u", "x">>, <<"TEX_AUX">>>>,
       <<<<".", "b", "b", "l">>, <<"TEX_BBL">>>>,
       <<<<".", "b", "i", "b">>, <<"TEX_BIB">>>>,
       <<<<".", "b", "s", "t">>, <<"TEX_BST">>>>,
       <<<<".", "c", "l", "o">>, <<"TEX_CLO">>>>,
       <<<<".", "c", "l", "s">>, <<"TEX_CLS">>>>,
       <<<<".", "d", "v", "i">>, <<"TEX_DVI">>>>,
       <<<<".", "f", "i", "g">>, <<"TEX_FIG">>>>,
       <<<<".", "l", "o", "g">>, <<"TEX_LOG">>>>,
       <<<<".", "p", "s", "t", "e", "x">>, <<"TEX_PSTEX">>>>,
       <<<<".", "p", "s", "t", "e", "x", "_", "t">>, <<"TEX_PSTEX_T">>>>,
       <<<<".", "s", "t", "y">>, <<"TEX_STY">>>>,
       <<<<".", "s", "y", "n", "c", "t", "e", "x">>, <<"TEX_SYNCTEX">>>>,
       <<<<".", "t", "e", "x">>, <<"TEX_TEX", "TEX_LATEX_209_MAIN", "TEX_LATEX_2E_MAIN">>>>,
       <<<<".", "t", "i", "k", "z">>, <<"TEX_TIKZ">>>>,
       <<<<".", "t", "o", "c">>, <<"TEX_TOC">>>> >>

\* XmlHandler: the extension map of the XML handler
XmlExtensionMap ==
    << <<<<".", "x", "m", "l">>, <<"XML">>>> >>

\* FileHandler._file_handlers, in list order
FileHandlers == <<"Archive", "Image", "Pdf", "Postscript", "Tex", "Xml">>

get_file_extension_map(handler) ==
    CASE handler = "Archive" -> ArchiveExtensionMap
      [] handler = "Image" -> ImageExtensionMap
      [] handler = "Pdf" -> PdfExtensionMap
      [] handler = "Postscript" -> PostscriptExtensionMap
      [] handler = "Tex" -> TexExtensionMap
      [] handler = "Xml" -> XmlExtensionMap

HasExtension(handler, ext) ==
    \E i \in DOMAIN get_file_extension_map(handler) :
        get_file_extension_map(handler)[i][1] = ext

\* handler.get_file_type_from_extension: the mapped list, [UNKNOWN] otherwise
HandlerTypesFromExtension(handler, ext) ==
    LET m == get_file_extension_map(handler)
        e == Lower(ext)
    IN  IF HasExtension(handler, e)
        THEN m[CHOOSE i \in DOMAIN m : m[i][1] = e][2]
        ELSE <<FILE_TYPE_UNKNOWN>>

\* FileHandler._get_file_handlers_from_extension: the handlers whose map holds
\* the extension, in list order
RECURSIVE HandlersFrom(_, _)
HandlersFrom(i, ext) ==
    IF i > Len(FileHandlers) THEN <<>>
    ELSE (IF HasExtension(FileHandlers[i], Lower(ext)) THEN <<FileHandlers[i]>> ELSE <<>>)
         \o HandlersFrom(i + 1, ext)

get_file_handlers_from_extension(ext) == HandlersFrom(1, ext)

RECURSIVE ConcatTypes(_, _)
ConcatTypes(handlers, ext) ==
    IF handlers = <<>> THEN <<>>
    ELSE HandlerTypesFromExtension(Head(handlers), ext) \o ConcatTypes(Tail(handlers), ext)

\* FileHandler.get_file_type_from_extension: a list, empty for no or an
\* unmapped extension
get_file_type_from_extension(path) ==
    LET file_extension == Lower(get_file_extension(path))
    IN  IF Len(file_extension) > 0
        THEN ConcatTypes(get_file_handlers_from_extension(file_extension), file_extension)
        ELSE <<>>

InSeq(x, s) == \E i \in DOMAIN s : s[i] = x

(***************************************************************************)
(* The names of the model: member names, the files the registrars are run  *)
(* on, and the archives the extraction methods are run on                  *)
(***************************************************************************)
NmPaperTex == <<"p", "a", "p", "e", "r", ".", "t", "e", "x">>
NmATex == <<"a", ".", "t", "e", "x">>
NmAUpperTex == <<"A", ".", "t", "e", "x">>
NmFigPs == <<"f", "i", "g", ".", "p", "s">>
NmTraversal == <<".", ".", "/", "x", ".", "g", "z">>
NmSub1 == <<"1", "2", "0", "2", ".", "3", "0", "5", "4", ".", "g", "z">>
NmSub2 == <<"c", "o", "n", "d", "-", "m", "a", "t", "9", "6", "0", "2", "1", "0", "1", ".", "g", "z">>
NmReadme == <<"r", "e", "a", "d", "m", "e", ".", "t", "x", "t">>
NmDirFile == <<"d", "/", "b", ".", "t", "e", "x">>
NmAbsolute == <<"/", "e", "t", "c", "/", "x">>

MemberNames ==
    {NmPaperTex, NmATex, NmAUpperTex, NmFigPs, NmTraversal, NmSub1, NmSub2, NmReadme, NmDirFile, NmAbsolute}

PSubA == <<"a", "/", "1", "2", "0", "2", ".", "3", "0", "5", "4", ".", "g", "z">>
PSubB == <<"b", "/", "1", "2", "0", "2", ".", "3", "0", "5", "5", ".", "g", "z">>
PSubTar == <<"a", "/", "1", "2", "0", "2", ".", "3", "0", "5", "6", ".", "g", "z">>
PSubCase == <<"a", "/", "c", "o", "n", "d", "-", "m", "a", "t", "9", "6", "0", "2", "1", "0", "1", ".", "g", "z">>
PSubNoName == <<"a", "/", "1", "2", "0", "2", ".", "3", "0", "5", "7", ".", "g", "z">>
PSubBadMonth == <<"a", "/", "1", "2", "1", "3", ".", "3", "0", "5", "4", ".", "g", "z">>
PSubMissing == <<"a", "/", "1", "2", "0", "2", ".", "3", "0", "5", "9", ".", "g", "z">>
PBulkA == <<"a", "/", "a", "r", "X", "i", "v", "_", "s", "r", "c", "_", "9", "9", "0", "2", "_", "0", "0", "5", ".", "t", "a", "r">>
PBulkB == <<"a", "/", "a", "r", "X", "i", "v", "_", "s", "r", "c", "_", "9", "9", "0", "2", "_", "0", "0", "6", ".", "t", "a", "r">>
PBulkBadMonth == <<"a", "/", "a", "r", "X", "i", "v", "_", "s", "r", "c", "_", "9", "9", "1", "3", "_", "0", "0", "5", ".", "t", "a", "r">>
PBulkBadMember == <<"a", "/", "a", "r", "X", "i", "v", "_", "s", "r", "c", "_", "9", "9", "0", "3", "_", "0", "0", "1", ".", "t", "a", "r">>
PBulkTgz == <<"a", "/", "a", "r", "X", "i", "v", "_", "s", "r", "c", "_", "9", "9", "0", "4", "_", "0", "0", "1", ".", "t", "a", "r">>
PBulkTraversal == <<"a", "/", "a", "r", "X", "i", "v", "_", "s", "r", "c", "_", "9", "9", "0", "5", "_", "0", "0", "1", ".", "t", "a", "r">>
PBulkMissing == <<"a", "/", "a", "r", "X", "i", "v", "_", "s", "r", "c", "_", "9", "9", "0", "6", "_", "0", "0", "1", ".", "t", "a", "r">>

PSubPdf == <<"a", "/", "1", "2", "0", "2", ".", "3", "0", "5", "8", ".", "p", "d", "f">>

SubmissionPaths ==
    {PSubA, PSubB, PSubTar, PSubCase, PSubNoName, PSubBadMonth, PSubMissing, PSubPdf}

PBulkElsewhere == <<"b", "/", "a", "r", "X", "i", "v", "_", "s", "r", "c", "_", "9", "9", "0", "2", "_", "0", "0", "5", ".", "t", "a", "r">>

BulkPaths ==
    {PBulkA, PBulkB, PBulkBadMonth, PBulkBadMember, PBulkTgz, PBulkTraversal, PBulkMissing,
     PBulkElsewhere}

XTar == <<"i", "n", "/", "p", "l", "a", "i", "n", ".", "t", "a", "r">>
XTgz == <<"i", "n", "/", "f", "i", "g", ".", "t", "g", "z">>
XGz == <<"i", "n", "/", "a", ".", "g", "z">>
XCase == <<"i", "n", "/", "c", "a", "s", "e", ".", "t", "g", "z">>
XTraversal == <<"i", "n", "/", "t", "r", "a", "v", ".", "t", "a", "r">>
XAbsolute == <<"i", "n", "/", "a", "b", "s", ".", "t", "a", "r">>
XExists == <<"i", "n", "/", "e", "x", "i", "s", "t", "s", ".", "t", "a", "r">>
XText == <<"i", "n", "/", "n", "o", "t", "e", "s", ".", "t", "x", "t">>
XMissing == <<"i", "n", "/", "n", "o", "n", "e", ".", "t", "a", "r">>

ArchivePaths == {XTar, XTgz, XGz, XCase, XTraversal, XAbsolute, XExists, XText, XMissing}

RootDir == <<"/">>

OutDir == <<"o", "u", "t">>

NoDir == <<"n", "o", "d", "i", "r">>

DestinationDirs == {RootDir, OutDir, NoDir}

RegistrarPaths == SubmissionPaths \cup BulkPaths

\* the name functions on the names of the model, each computed once
SubmissionNameTable == [n \in SubmissionPaths |-> is_submission_filename(n)]

UrlTable == [n \in SubmissionPaths |-> generate_url_for_submission_filename(n)]

BulkArchiveNameTable == [n \in BulkPaths |-> is_bulk_archive_filename(n)]

UriTable == [n \in BulkPaths |-> generate_uri_for_bulk_archive_filename(n)]

BasenameTable == [n \in RegistrarPaths |-> get_file_basename(n)]

ExtensionTypesTable == [n \in RegistrarPaths |-> get_file_type_from_extension(n)]

ExtensionHandlersTable ==
    [n \in RegistrarPaths |-> get_file_handlers_from_extension(Lower(get_file_extension(n)))]

AllowedNameTable == [n \in MemberNames |-> is_filename_allowed(n)]

(***************************************************************************)
(* File contents and the file system                                       *)
(*                                                                         *)
(* A content stands for the bytes of a file; a file of fs is a content     *)
(* and a modification instant.  What the readers report for the bytes is   *)
(* given per content by the definitions below.                             *)
(***************************************************************************)
VARIABLES fs, dirs, clock, subReg, bulkReg, rejected, last, ncalls, manifests, handle, registries, documents

vars == <<fs, dirs, clock, subReg, bulkReg, rejected, last, ncalls, manifests, handle, registries, documents>>

ContentIds ==
    {"gzTex", "gzNoName", "tgzCase", "pdf", "tarGood", "tarBadMember", "tarTraversal",
     "tarPlain", "tgzPlain", "gzPlain", "tarExists", "tarAbsolute", "text", "tarOther"}

\* the contents tarfile.is_tarfile accepts
TarContents ==
    {"tgzCase", "tarGood", "tarBadMember", "tarTraversal", "tarPlain", "tgzPlain",
     "tarExists", "tarAbsolute", "tarOther"}

\* the contents gzip.open(...).read(1) reads without BadGzipFile
GzipContents == {"gzTex", "gzNoName", "tgzCase", "tgzPlain", "gzPlain"}

\* what the get_file_type_from_format of a non-archive handler reports
Detected(c, handler) ==
    IF c = "pdf" /\ handler = "Pdf" THEN "PDF" ELSE FILE_TYPE_UNKNOWN

\* the regular-file member names tarfile reports, or the gzip header names
Members(c) ==
    CASE c = "gzTex" -> <<NmPaperTex>>
      [] c = "tgzCase" -> <<NmATex, NmAUpperTex>>
      [] c = "tarGood" -> <<NmSub1, NmSub2>>
      [] c = "tarBadMember" -> <<NmSub1, NmReadme>>
      [] c = "tarTraversal" -> <<NmSub1, NmTraversal>>
      [] c = "tarPlain" -> <<NmPaperTex, NmDirFile>>
      [] c = "tgzPlain" -> <<NmFigPs>>
      [] c = "gzPlain" -> <<NmATex>>
      [] c = "tarExists" -> <<NmATex, NmReadme>>
      [] c = "tarAbsolute" -> <<NmATex, NmAbsolute>>
      [] c = "tarOther" -> <<NmSub2>>
      [] OTHER -> <<>>

SizeBytes(c) ==
    CASE c = "gzTex" -> 120
      [] c = "gzNoName" -> 80
      [] c = "tgzCase" -> 300
      [] c = "pdf" -> 500
      [] c = "tarGood" -> 2048
      [] c = "tarBadMember" -> 3072
      [] c = "tarTraversal" -> 1024
      [] c = "tarPlain" -> 1536
      [] c = "tgzPlain" -> 700
      [] c = "gzPlain" -> 90
      [] c = "tarExists" -> 1100
      [] c = "tarAbsolute" -> 1200
      [] c = "text" -> 10
      [] c = "tarOther" -> 4096

\* FileSystem.is_file
is_file(path) == path \in DOMAIN fs

\* FileSystem.is_directory
is_directory(path) == path \in dirs

\* HashService.calculate_file_hash: a digest is a function of the bytes
calculate_file_hash(path, hash_type) == <<hash_type, fs[path].content>>

\* FileSystem.get_file_size
get_file_size(path) == SizeBytes(fs[path].content)

\* FileSystem.get_file_timestamp: the modification instant
get_file_timestamp(path) == fs[path].mtime

(***************************************************************************)
(* ArchiveHandler                                                          *)
(***************************************************************************)
Err(msg) == [msg |-> msg, arg |-> <<>>]

ErrArg(msg, arg) == [msg |-> msg, arg |-> arg]

\* the outcome of a call: what it raised ("none" when it returned) and its value
Returned(v) == [raised |-> "none", value |-> v]

Raised(e) == [raised |-> e, value |-> <<>>]

_is_tar_or_tgz_format(path) == fs[path].content \in TarContents

_is_gzip_or_tgz_format(path) == fs[path].content \in GzipContents

is_tar_format(path) == _is_tar_or_tgz_format(path) /\ ~_is_gzip_or_tgz_format(path)

is_gzip_format(path) == _is_gzip_or_tgz_format(path) /\ ~_is_tar_or_tgz_format(path)

is_tgz_format(path) == _is_gzip_or_tgz_format(path) /\ _is_tar_or_tgz_format(path)

is_archive_format(path) == is_tar_format(path) \/ is_gzip_format(path) \/ is_tgz_format(path)

ArchiveHandler_get_file_type_from_format(path) ==
    IF is_tar_format(path) THEN "ARCHIVE_TAR"
    ELSE IF is_tgz_format(path) THEN "ARCHIVE_TGZ"
    ELSE IF is_gzip_format(path) THEN "ARCHIVE_GZ"
    ELSE FILE_TYPE_UNKNOWN

\* ArchiveHandler.list_contents
list_contents(path) ==
    IF ~is_file(path) THEN Raised("FileNotFoundError")
    ELSE IF ~is_archive_format(path) THEN Raised("TypeError")
    ELSE Returned(Members(fs[path].content))

\* all([FileName.is_filename_allowed(entry) for entry in file_contents])
AllAllowed(file_contents) ==
    \A i \in DOMAIN file_contents : AllowedNameTable[file_contents[i]]

ErrFileNotFound == Err("file not found")

ErrNoDirectory == Err("destination directory not found")

ErrNotUnique == Err("archive contents filename is not unique on case-insensitive file systems")

ErrForbidden == Err("archive contents filenames are forbidden")

ErrExists == Err("destination file already exists")

\* what the two name checks say of each member list of the model, computed once
UniqueNamesTable == [c \in ContentIds |-> is_filename_list_unique(Members(c))]

AllowedNamesTable == [c \in ContentIds |-> AllAllowed(Members(c))]

\* a member-name part without the test on the targets
ContentsErrors_overwrite_allowed(file_contents, is_unique_names, is_valid_filenames, destination_directory) ==
    (IF ~is_unique_names THEN <<ErrNotUnique>> ELSE <<>>)
    \o (IF ~is_valid_filenames THEN <<ErrForbidden>> ELSE <<>>)

\* the member-name part of check_extract_possible
ContentsErrors(file_contents, is_unique_names, is_valid_filenames, destination_directory) ==
    (IF ~is_unique_names THEN <<ErrNotUnique>> ELSE <<>>)
    \o (IF ~is_valid_filenames THEN <<ErrForbidden>> ELSE <<>>)
    \o (IF /\ is_unique_names
           /\ is_valid_filenames
           /\ \E i \in DOMAIN file_contents :
                  is_file(PathJoin(destination_directory, file_contents[i]))
        THEN <<ErrExists>> ELSE <<>>)

\* check_extract_possible from the listing on: list_contents raises for a
\* source that is no archive
CheckListing(listing, source_file_path, destination_directory) ==
    IF listing.raised # "none" THEN Raised(listing.raised)
    ELSE Returned(ContentsErrors(listing.value,
                                 UniqueNamesTable[fs[source_file_path].content],
                                 AllowedNamesTable[fs[source_file_path].content],
                                 destination_directory))

\* a check that tests the member names of an existing source whatever the
\* destination is
check_extract_possible_members_always(source_file_path, destination_directory) ==
    IF is_file(source_file_path) /\ is_directory(destination_directory)
    THEN CheckListing(list_contents(source_file_path), source_file_path,
                      destination_directory)
    ELSE IF is_file(source_file_path)
    THEN Returned(<<ErrNoDirectory>>
                  \o ContentsErrors(Members(fs[source_file_path].content),
                                    UniqueNamesTable[fs[source_file_path].content],
                                    AllowedNamesTable[fs[source_file_path].content],
                                    destination_directory))
    ELSE Returned(<<ErrFileNotFound>>
                  \o (IF ~is_directory(destination_directory)
                      THEN <<ErrNoDirectory>> ELSE <<>>))

\* ArchiveHandler.check_extract_possible
check_extract_possible(source_file_path, destination_directory) ==
    IF is_file(source_file_path) /\ is_directory(destination_directory)
    THEN CheckListing(list_contents(source_file_path), source_file_path,
                      destination_directory)
    ELSE Returned((IF ~is_file(source_file_path) THEN <<ErrFileNotFound>> ELSE <<>>)
                  \o (IF ~is_directory(destination_directory)
                      THEN <<ErrNoDirectory>> ELSE <<>>))

IsEmptyLog(r) == IF r.raised # "none" THEN r ELSE Returned(Len(r.value) = 0)

\* ArchiveHandler.is_extract_possible
is_extract_possible(source_file_path, destination_directory) ==
    IsEmptyLog(check_extract_possible(source_file_path, destination_directory))

\* the files an extraction writes: one per member, under the destination
ExtractedFiles(source_file_path, destination_directory) ==
    {PathJoin(destination_directory, m) : m \in Range(Members(fs[source_file_path].content))}

\* os.path.dirname
DirName(path) ==
    LET sep == LastIndexOf(path, "/")
    IN  IF sep = 0 THEN <<>>
        ELSE IF sep = 1 THEN <<"/">>
        ELSE SubSeq(path, 1, sep - 1)

\* the outcome of an extraction method that changes nothing
Refused(e) == [raised |-> e, fs |-> fs, dirs |-> dirs]

\* _extract_tar_or_tgz_contents_private and _extract_gzip_contents_private:
\* tarfile creates the directories of a member, open() of the gzip path does not
ExtractPrivate(kind, written) ==
    IF kind = "gzip" /\ \E p \in written : DirName(p) \notin dirs
    THEN Refused("FileNotFoundError")
    ELSE [raised |-> "none",
          fs |-> [p \in DOMAIN fs \cup written |->
                     IF p \in written THEN [content |-> "text", mtime |-> clock]
                     ELSE fs[p]],
          dirs |-> dirs \cup {DirName(p) : p \in written}]

\* an extraction method after its format check
ExtractChecked(kind, possible, written) ==
    IF possible.raised # "none" THEN Refused(possible.raised)
    ELSE IF ~possible.value THEN Refused("ValueError")
    ELSE ExtractPrivate(kind, written)

IsKind(kind, source_file_path) ==
    CASE kind = "tar" -> is_tar_format(source_file_path)
      [] kind = "tgz" -> is_tgz_format(source_file_path)
      [] kind = "gzip" -> is_gzip_format(source_file_path)

\* extract_tar_contents / extract_tgz_contents / extract_gzip_contents: the
\* outcome and the file system after it; kind is the format the method accepts
ExtractOutcome(kind, source_file_path, destination_directory) ==
    IF ~is_file(source_file_path) THEN Refused("FileNotFoundError")
    ELSE IF ~IsKind(kind, source_file_path) THEN Refused("TypeError")
    ELSE ExtractChecked(kind,
                        is_extract_possible(source_file_path, destination_directory),
                        ExtractedFiles(source_file_path, destination_directory))

(***************************************************************************)
(* FileHandler: format detection and metadata                              *)
(***************************************************************************)
HandlerFormat(handler, path) ==
    IF handler = "Archive" THEN ArchiveHandler_get_file_type_from_format(path)
    ELSE Detected(fs[path].content, handler)

\* what each handler of the list reports for the file
HandlerFormats(handlers, path) ==
    [i \in DOMAIN handlers |-> HandlerFormat(handlers[i], path)]

\* the loop of FileHandler.get_file_type_from_format: the first handler that
\* reports a known type decides
RECURSIVE FirstKnownFormat(_)
FirstKnownFormat(formats) ==
    IF formats = <<>> THEN FILE_TYPE_UNKNOWN
    ELSE IF Head(formats) # FILE_TYPE_UNKNOWN THEN Head(formats)
    ELSE FirstKnownFormat(Tail(formats))

\* FileHandler.get_file_type_from_format(file_path, use_extension=True)
get_file_type_from_format(path) ==
    FirstKnownFormat(HandlerFormats(ExtensionHandlersTable[path], path))

\* FileHandler.get_metadata with hash_types [MD5, SHA256]
get_metadata(path) ==
    [filename |-> BasenameTable[path],
     size_bytes |-> get_file_size(path),
     hash |-> [MD5 |-> calculate_file_hash(path, "MD5"),
               SHA256 |-> calculate_file_hash(path, "SHA256")],
     timestamp_iso |-> get_file_timestamp(path),
     file_type |-> get_file_type_from_format(path)]

(***************************************************************************)
(* SubmissionHandler                                                       *)
(***************************************************************************)
tex_types == {"TEX_TEX", "TEX_LATEX_209_MAIN", "TEX_LATEX_2E_MAIN"}

tex_supporting_types ==
    {"TEX_LOG", "TEX_FIG", "IMAGE_GIF", "IMAGE_PNG", "IMAGE_JPG", "TEX_BIB", "TEX_CLO",
     "TEX_BST", "TEX_TOC", "TEX_CLS", "TEX_BBL", "POSTSCRIPT_EPSF", "TEX_PSTEX_T",
     "TEX_PSTEX", "TEX_STY", "TEX_LATEX_209_MAIN", "TEX_LATEX_2E_MAIN", "TEX_TEX", "PDF",
     "POSTSCRIPT_PS", "POSTSCRIPT_EPSI", "POSTSCRIPT_EPS"}

\* the set of file types of a member list; a member without a mapped
\* extension contributes UNKNOWN
MemberFileTypes(submission_file_list) ==
    UNION {IF Len(get_file_type_from_extension(submission_file_list[i])) = 0
           THEN {FILE_TYPE_UNKNOWN}
           ELSE Range(get_file_type_from_extension(submission_file_list[i]))
           : i \in DOMAIN submission_file_list}

\* an inference that takes one TeX main file for a TeX submission
get_submission_type_using_extension_any_tex(submission_file_list) ==
    LET file_types == MemberFileTypes(submission_file_list)
    IN  IF file_types = {"POSTSCRIPT_PS"} THEN "POSTSCRIPT"
        ELSE IF file_types = {"PDF"} THEN "PDF"
        ELSE IF tex_types \cap file_types # {} THEN "TEX"
        ELSE "UNKNOWN"

get_submission_type_using_extension(submission_file_list) ==
    LET file_types == MemberFileTypes(submission_file_list)
    IN  IF file_types = {"POSTSCRIPT_PS"} THEN "POSTSCRIPT"
        ELSE IF file_types = {"PDF"} THEN "PDF"
        ELSE IF tex_types \cap file_types # {}
        THEN IF file_types \ tex_supporting_types = {} THEN "TEX" ELSE "UNKNOWN"
        ELSE "UNKNOWN"

\* the submission type of each member list of the model, computed once
SubmissionTypeFacts ==
    [c \in ContentIds |-> get_submission_type_using_extension(Members(c))]

allowed_file_types == {"ARCHIVE_GZ", "ARCHIVE_TGZ", "PDF"}

allowed_archive_file_types == {"ARCHIVE_GZ", "ARCHIVE_TGZ"}

\* the destination check_submission and check_bulk_archive test against
default_extract_path == <<"/">>

\* the file-type stage of check_submission
TypeErrors(by_extension, by_format) ==
    IF ~\E i \in DOMAIN by_extension : by_extension[i] \in allowed_file_types
    THEN <<Err("File extension type is not allowed")>>
    ELSE IF by_format \notin allowed_file_types
    THEN <<ErrArg("File type not allowed", <<by_format>>)>>
    ELSE IF ~InSeq(by_format, by_extension)
    THEN <<Err("File format does not match file extension")>>
    ELSE <<>>

\* the extraction stage of check_submission: run for an archive without
\* type errors
ArchiveErrors(type_errors, by_format, file_path) ==
    IF type_errors = <<>> /\ by_format \in allowed_archive_file_types
    THEN check_extract_possible(file_path, default_extract_path).value
    ELSE type_errors

CheckFileType(by_extension, by_format, file_path) ==
    ArchiveErrors(TypeErrors(by_extension, by_format), by_format, file_path)

\* SubmissionHandler.check_submission
check_submission(file_path) ==
    IF ~SubmissionNameTable[file_path]
    THEN <<ErrArg("Filename does not match submission pattern", file_path)>>
    ELSE IF ~is_file(file_path)
    THEN <<ErrArg("File not found", file_path)>>
    ELSE CheckFileType(ExtensionTypesTable[file_path],
                       get_file_type_from_format(file_path), file_path)

ErrUnknownType == Err("Unknown submission type")

\* an inference that runs whatever check_submission reported
InferredType_errors_ignored(submission_errors, file_type, file_path) ==
    IF file_type = "PDF" THEN "PDF"
    ELSE IF file_type \in {"ARCHIVE_GZ", "ARCHIVE_TGZ"}
    THEN SubmissionTypeFacts[fs[file_path].content]
    ELSE "UNKNOWN"

\* the submission type generate_registry_entry infers
InferredType(submission_errors, file_type, file_path) ==
    IF Len(submission_errors) > 0 THEN "UNKNOWN"
    ELSE IF file_type = "PDF" THEN "PDF"
    ELSE IF file_type \in {"ARCHIVE_GZ", "ARCHIVE_TGZ"}
    THEN SubmissionTypeFacts[fs[file_path].content]
    ELSE "UNKNOWN"

\* the key, the entry and the errors generate_registry_entry returns
BuildSubmission(submission_errors, url, metadata, submission_type, bulk_archive_key) ==
    [key |-> metadata.hash.SHA256,
     entry |-> [metadata |-> [filename |-> metadata.filename,
                              size_bytes |-> metadata.size_bytes,
                              hash |-> metadata.hash,
                              timestamp_iso |-> metadata.timestamp_iso,
                              file_type |-> metadata.file_type,
                              submission_type_by_extension |-> submission_type],
                origin |-> [url |-> url, bulk_archive_key |-> bulk_archive_key]],
     errors |-> IF Len(submission_errors) = 0 /\ submission_type = "UNKNOWN"
                THEN Append(submission_errors, ErrUnknownType)
                ELSE submission_errors]

InferAndBuild(submission_errors, url, metadata, file_path, bulk_archive_key) ==
    BuildSubmission(submission_errors, url, metadata,
                    InferredType(submission_errors, metadata.file_type, file_path),
                    bulk_archive_key)

\* SubmissionHandler.generate_registry_entry, for an existing file with a
\* name one of the grammars matches: key, entry and errors
Submission_generate_registry_entry(file_path, bulk_archive_key) ==
    InferAndBuild(check_submission(file_path), UrlTable[file_path],
                  get_metadata(file_path), file_path, bulk_archive_key)

(***************************************************************************)
(* BulkArchiveHandler                                                      *)
(***************************************************************************)
\* ', '.join(names)
RECURSIVE JoinComma(_)
JoinComma(names) ==
    IF names = <<>> THEN <<>>
    ELSE IF Len(names) = 1 THEN names[1]
    ELSE names[1] \o <<",", " ">> \o JoinComma(Tail(names))

\* [entry for entry in archive_contents if not is_submission_filename(entry)]
RECURSIVE InvalidEntries(_)
InvalidEntries(archive_contents) ==
    IF archive_contents = <<>> THEN <<>>
    ELSE (IF ~is_submission_filename(Head(archive_contents))
          THEN <<Head(archive_contents)>> ELSE <<>>)
         \o InvalidEntries(Tail(archive_contents))

\* the members of each content that are not submission names, computed once
InvalidEntriesFacts == [c \in ContentIds |-> InvalidEntries(Members(c))]

\* last stages that report the member names next to the extraction errors
BulkContentsErrors_all_stages(archive_errors, invalid_entries) ==
    archive_errors \o
        (IF invalid_entries # <<>>
         THEN <<ErrArg("Archive entries do not match submission filename pattern",
                       JoinComma(invalid_entries))>>
         ELSE <<>>)

\* the last stages of check_bulk_archive: the extraction check, then the
\* member names
BulkContentsErrors(archive_errors, invalid_entries) ==
    IF archive_errors # <<>> THEN archive_errors
    ELSE IF invalid_entries # <<>>
    THEN <<ErrArg("Archive entries do not match submission filename pattern",
                  JoinComma(invalid_entries))>>
    ELSE <<>>

\* BulkArchiveHandler.check_bulk_archive
check_bulk_archive(file_path) ==
    IF ~BulkArchiveNameTable[file_path]
    THEN <<ErrArg("Filename does not match bulk archive pattern", file_path)>>
    ELSE IF ~is_file(file_path)
    THEN <<ErrArg("File not found", file_path)>>
    ELSE IF ~InSeq("ARCHIVE_TAR", ExtensionTypesTable[file_path])
    THEN <<Err("File extension is not tar")>>
    ELSE IF get_file_type_from_format(file_path) # "ARCHIVE_TAR"
    THEN <<Err("File format is not tar")>>
    ELSE BulkContentsErrors(check_extract_possible(file_path, default_extract_path).value,
                            InvalidEntriesFacts[fs[file_path].content])

BuildBulkArchive(metadata, uri, errors) ==
    [key |-> metadata.hash.SHA256,
     entry |-> [metadata |-> metadata, origin |-> [uri |-> uri]],
     errors |-> errors]

\* BulkArchiveHandler.generate_registry_entry, for an existing file with a
\* valid bulk-archive name: key, entry and errors
Bulk_generate_registry_entry(file_path) ==
    BuildBulkArchive(get_metadata(file_path), UriTable[file_path],
                     check_bulk_archive(file_path))

(***************************************************************************)
(* Registry, SubmissionRegistry and BulkArchiveRegistry                    *)
(*                                                                         *)
(* A registry is a function from keys to entries.  An entry is a record    *)
(* with the fields metadata and origin and, when it has one, diagnostics;  *)
(* diagnostics has the field error_log and, when it has one, key_conflicts.*)
(***************************************************************************)
is_key_present(registry, hash_key) == hash_key \in DOMAIN registry

\* Registry.add_entry, called where the key is known to be absent
add_entry(registry, hash_key, entry) ==
    [k \in DOMAIN registry \cup {hash_key} |->
        IF k = hash_key THEN entry ELSE registry[k]]

HasDiagnostics(entry) == "diagnostics" \in DOMAIN entry

HasKeyConflicts(entry) ==
    HasDiagnostics(entry) /\ "key_conflicts" \in DOMAIN entry.diagnostics

ErrorLogOf(entry) == IF HasDiagnostics(entry) THEN entry.diagnostics.error_log ELSE <<>>

KeyConflictsOf(entry) == IF HasKeyConflicts(entry) THEN entry.diagnostics.key_conflicts ELSE <<>>

WithDiagnostics(entry, diagnostics) ==
    [metadata |-> entry.metadata, origin |-> entry.origin, diagnostics |-> diagnostics]

ErrKeyConflicts == Err("key conflicts")

\* a duplicate-key branch that keeps only the latest rejected entry
RecordConflict_latest_only(existing_entry, registry_entry) ==
    WithDiagnostics(existing_entry,
        [error_log |-> IF InSeq(ErrKeyConflicts, ErrorLogOf(existing_entry))
                       THEN ErrorLogOf(existing_entry)
                       ELSE Append(ErrorLogOf(existing_entry), ErrKeyConflicts),
         key_conflicts |-> <<registry_entry>>])

\* a duplicate-key branch that logs the marker at every conflict
RecordConflict_marker_each_time(existing_entry, registry_entry) ==
    WithDiagnostics(existing_entry,
        [error_log |-> Append(ErrorLogOf(existing_entry), ErrKeyConflicts),
         key_conflicts |-> Append(KeyConflictsOf(existing_entry), registry_entry)])

\* the duplicate-key branch of register_submission: the existing entry after
\* the rejected entry was recorded on it
RecordConflict(existing_entry, registry_entry) ==
    LET error_log == ErrorLogOf(existing_entry)
    IN  IF ~InSeq(ErrKeyConflicts, error_log)
        THEN WithDiagnostics(existing_entry,
                 [error_log |-> Append(error_log, ErrKeyConflicts),
                  key_conflicts |-> <<registry_entry>>])
        ELSE WithDiagnostics(existing_entry,
                 [error_log |-> error_log,
                  key_conflicts |-> Append(existing_entry.diagnostics.key_conflicts,
                                           registry_entry)])

\* a candidate entry that leaves the errors of generate_registry_entry out
SubmissionCandidate_without_errors(g) == g.entry

\* the entry register_submission builds before it looks at the registry
SubmissionCandidate(g) ==
    IF Len(g.errors) > 0
    THEN WithDiagnostics(g.entry, [error_log |-> g.errors])
    ELSE g.entry

\* a duplicate-key test that never compares the metadata
StoreSubmission_no_compare(registry, registry_key, registry_entry) ==
    IF is_key_present(registry, registry_key)
    THEN [raised |-> "none",
          registry |-> [registry EXCEPT ![registry_key] =
              RecordConflict(registry[registry_key], registry_entry)]]
    ELSE [raised |-> "none", registry |-> add_entry(registry, registry_key, registry_entry)]

\* register_submission from the duplicate-key test on
StoreSubmission(registry, registry_key, registry_entry) ==
    IF is_key_present(registry, registry_key)
    THEN IF registry[registry_key].metadata # registry_entry.metadata
         THEN IF /\ InSeq(ErrKeyConflicts, ErrorLogOf(registry[registry_key]))
                 /\ ~HasKeyConflicts(registry[registry_key])
              THEN [raised |-> "KeyError", registry |-> registry]
              ELSE [raised |-> "none",
                    registry |-> [registry EXCEPT ![registry_key] =
                        RecordConflict(registry[registry_key], registry_entry)]]
         ELSE [raised |-> "none", registry |-> registry]
    ELSE [raised |-> "none", registry |-> add_entry(registry, registry_key, registry_entry)]

\* a registrar that drops a second entry for a held key without a record
StoreGenerated_first_wins(registry, g) ==
    IF is_key_present(registry, g.key)
    THEN [raised |-> "none", registry |-> registry]
    ELSE [raised |-> "none",
          registry |-> add_entry(registry, g.key, SubmissionCandidate(g))]

StoreGenerated(registry, g) == StoreSubmission(registry, g.key, SubmissionCandidate(g))

\* a registrar that leaves the name to the pipeline
register_submission_name_unchecked(registry, file_path, bulk_archive_key) ==
    IF ~is_file(file_path) THEN [raised |-> "FileNotFoundError", registry |-> registry]
    ELSE StoreGenerated(registry,
                        Submission_generate_registry_entry(file_path, bulk_archive_key))

\* SubmissionRegistry.register_submission: what it raises and the registry
\* after the call
register_submission(registry, file_path, bulk_archive_key) ==
    IF ~is_file(file_path) THEN [raised |-> "FileNotFoundError", registry |-> registry]
    ELSE IF ~SubmissionNameTable[file_path]
    THEN [raised |-> "ValueError", registry |-> registry]
    ELSE StoreGenerated(registry,
                        Submission_generate_registry_entry(file_path, bulk_archive_key))

\* BulkArchiveRegistry.find_bulk_archive_filename: the keys whose entry has
\* the basename as metadata.filename (the method returns the first, or None)
find_bulk_archive_filename(registry, file_path) ==
    {k \in DOMAIN registry : registry[k].metadata.filename = BasenameTable[file_path]}

\* a registrar that stores an archive whatever the pipeline reported
StoreBulkArchive_errors_ignored(registry, g) ==
    IF is_key_present(registry, g.key)
    THEN IF registry[g.key] # g.entry
         THEN [raised |-> "KeyError", why |-> "key already registered",
               registry |-> registry]
         ELSE [raised |-> "none", why |-> "identical", registry |-> registry]
    ELSE [raised |-> "none", why |-> "added",
          registry |-> add_entry(registry, g.key, g.entry)]

\* a registrar that replaces the entry of a held key
StoreBulkArchive_last_wins(registry, g) ==
    IF Len(g.errors) > 0
    THEN [raised |-> "ValueError", why |-> "has errors", registry |-> registry]
    ELSE [raised |-> "none", why |-> "added",
          registry |-> add_entry(registry, g.key, g.entry)]

\* register_bulk_archive from the generated entry on
StoreBulkArchive(registry, g) ==
    IF Len(g.errors) > 0
    THEN [raised |-> "ValueError", why |-> "has errors", registry |-> registry]
    ELSE IF is_key_present(registry, g.key)
    THEN IF registry[g.key] # g.entry
         THEN [raised |-> "KeyError", why |-> "key already registered",
               registry |-> registry]
         ELSE [raised |-> "none", why |-> "identical", registry |-> registry]
    ELSE [raised |-> "none", why |-> "added",
          registry |-> add_entry(registry, g.key, g.entry)]

\* a registrar without the test on the registered filenames
register_bulk_archive_filename_unchecked(registry, file_path) ==
    IF ~is_file(file_path)
    THEN [raised |-> "FileNotFoundError", why |-> "not found", registry |-> registry]
    ELSE IF ~BulkArchiveNameTable[file_path]
    THEN [raised |-> "ValueError", why |-> "not a valid bulk archive filename",
          registry |-> registry]
    ELSE StoreBulkArchive(registry, Bulk_generate_registry_entry(file_path))

\* a registrar that generates and validates the entry before it looks for
\* the filename among the registered ones
register_bulk_archive_validated_first(registry, file_path) ==
    IF ~is_file(file_path)
    THEN [raised |-> "FileNotFoundError", why |-> "not found", registry |-> registry]
    ELSE IF ~BulkArchiveNameTable[file_path]
    THEN [raised |-> "ValueError", why |-> "not a valid bulk archive filename",
          registry |-> registry]
    ELSE IF Len(check_bulk_archive(file_path)) > 0
    THEN [raised |-> "ValueError", why |-> "has errors", registry |-> registry]
    ELSE IF find_bulk_archive_filename(registry, file_path) # {}
    THEN [raised |-> "ValueError", why |-> "already registered", registry |-> registry]
    ELSE StoreBulkArchive(registry, Bulk_generate_registry_entry(file_path))

\* BulkArchiveRegistry.register_bulk_archive: what it raises, with the
\* message that tells its ValueErrors apart, and the registry after the call
register_bulk_archive(registry, file_path) ==
    IF ~is_file(file_path)
    THEN [raised |-> "FileNotFoundError", why |-> "not found", registry |-> registry]
    ELSE IF ~BulkArchiveNameTable[file_path]
    THEN [raised |-> "ValueError", why |-> "not a valid bulk archive filename",
          registry |-> registry]
    ELSE IF find_bulk_archive_filename(registry, file_path) # {}
    THEN [raised |-> "ValueError", why |-> "already registered", registry |-> registry]
    ELSE StoreBulkArchive(registry, Bulk_generate_registry_entry(file_path))

(***************************************************************************)
(* The registrars at work                                                  *)
(***************************************************************************)
\* the keys a caller passes as the containing bulk archive
ParentKeys == {<<"SHA256", "tarGood">>, <<"SHA256", "tarBadMember">>}

File(c) == [content |-> c, mtime |-> 0]

RegistrarFiles ==
    (PSubA :> File("gzTex")) @@ (PSubB :> File("gzTex")) @@ (PSubTar :> File("tarGood"))
    @@ (PSubCase :> File("tgzCase"))
    @@ (PSubNoName :> File("gzNoName"))
    @@ (PSubBadMonth :> File("gzTex"))
    @@ (PBulkA :> File("tarGood")) @@ (PBulkB :> File("tarGood"))
    @@ (PBulkBadMonth :> File("tarGood")) @@ (PBulkBadMember :> File("tarBadMember"))
    @@ (PBulkTgz :> File("tgzCase")) @@ (PBulkTraversal :> File("tarTraversal"))

\* the files the environment rewrites
TouchedPaths == {PSubCase}

\* the most registration calls and the latest modification instant explored
MaxCalls == 3

MaxTime == 1

EmptyRegistry == [k \in {} |-> 0]

\* last is the latest step: the call, what it raised, the message that tells
\* the errors of one type apart, the value it returned (<<>> for None), and
\* whether the step before it was the same call
NoCall ==
    [op |-> "none", path |-> <<>>, arg |-> <<>>, raised |-> "none", why |-> "none",
     value |-> <<>>, repeat |-> FALSE]

\* handle is the frame of a running _list_gzip_contents call: where the call
\* is, the offset of its file handle and the name bytes read so far
NoHandle == [pc |-> "none", pos |-> 0, name |-> <<>>]

IsRepeat(op, path, arg) == last.op = op /\ last.path = path /\ last.arg = arg

Init ==
    /\ fs = RegistrarFiles
    /\ dirs = {RootDir}
    /\ clock = 0
    /\ subReg = EmptyRegistry
    /\ bulkReg = EmptyRegistry
    /\ rejected = EmptyRegistry
    /\ last = NoCall
    /\ ncalls = 0
    /\ manifests = EmptyRegistry
    /\ handle = NoHandle
    /\ registries = EmptyRegistry
    /\ documents = EmptyRegistry

\* the registry holds the key of the generated entry with other metadata
ConflictsWith(registry, g) ==
    g.key \in DOMAIN registry /\ registry[g.key].metadata # g.entry.metadata

\* the call is one the registrar rejects as a conflict
IsConflictingCall(file_path, bulk_archive_key) ==
    /\ is_file(file_path)
    /\ SubmissionNameTable[file_path]
    /\ ConflictsWith(subReg,
                     Submission_generate_registry_entry(file_path, bulk_archive_key))

\* rejected after a call that generated g: the rejected entries of each key,
\* in call order
RejectedAfter(g) ==
    IF ConflictsWith(subReg, g)
    THEN [x \in DOMAIN rejected \cup {g.key} |->
             IF x = g.key
             THEN (IF g.key \in DOMAIN rejected THEN rejected[g.key] ELSE <<>>)
                  \o <<SubmissionCandidate(g)>>
             ELSE rejected[x]]
    ELSE rejected

\* what a call to register_submission leaves behind
AfterRegisterSubmission(r, file_path, bulk_archive_key) ==
    /\ subReg' = r.registry
    /\ last' = [op |-> "register_submission", path |-> file_path,
                arg |-> bulk_archive_key, raised |-> r.raised, why |-> "none",
                value |-> <<>>,
                repeat |-> IsRepeat("register_submission", file_path, bulk_archive_key)]

RegisterSubmission(file_path, bulk_archive_key) ==
    /\ ncalls < MaxCalls
    /\ AfterRegisterSubmission(register_submission(subReg, file_path, bulk_archive_key),
                               file_path, bulk_archive_key)
    /\ rejected' =
          IF is_file(file_path) /\ SubmissionNameTable[file_path]
          THEN RejectedAfter(Submission_generate_registry_entry(file_path, bulk_archive_key))
          ELSE rejected
    /\ ncalls' = ncalls + 1
    /\ UNCHANGED <<fs, dirs, clock, bulkReg, manifests, handle, registries, documents>>

\* what a call to register_bulk_archive leaves behind
AfterRegisterBulkArchive(r, file_path) ==
    /\ bulkReg' = r.registry
    /\ last' = [op |-> "register_bulk_archive", path |-> file_path,
                arg |-> <<>>, raised |-> r.raised, why |-> r.why, value |-> <<>>,
                repeat |-> IsRepeat("register_bulk_archive", file_path, <<>>)]

RegisterBulkArchive(file_path) ==
    /\ ncalls < MaxCalls
    /\ AfterRegisterBulkArchive(register_bulk_archive(bulkReg, file_path), file_path)
    /\ ncalls' = ncalls + 1
    /\ UNCHANGED <<fs, dirs, clock, subReg, rejected, manifests, handle, registries, documents>>

\* the environment rewrites a file in place: same bytes, later modification time
TouchFile(file_path) ==
    /\ clock < MaxTime
    /\ is_file(file_path)
    /\ clock' = clock + 1
    /\ fs' = [fs EXCEPT ![file_path].mtime = clock + 1]
    /\ last' = [op |-> "touch", path |-> file_path, arg |-> <<>>, raised |-> "none",
                why |-> "none", value |-> <<>>, repeat |-> FALSE]
    /\ UNCHANGED <<dirs, subReg, bulkReg, rejected, ncalls, manifests, handle, registries, documents>>

Next ==
    \/ \E p \in SubmissionPaths, k \in ParentKeys : RegisterSubmission(p, k)
    \/ \E p \in BulkPaths : RegisterBulkArchive(p)
    \/ \E p \in TouchedPaths : TouchFile(p)

Spec == Init /\ [][Next]_vars

(***************************************************************************)
(* The extraction methods at work                                          *)
(***************************************************************************)
InDir == <<"i", "n">>

ExtractionFiles ==
    (XTar :> File("tarPlain")) @@ (XTgz :> File("tgzPlain")) @@ (XGz :> File("gzPlain"))
    @@ (XCase :> File("tgzCase")) @@ (XTraversal :> File("tarTraversal"))
    @@ (XAbsolute :> File("tarAbsolute")) @@ (XExists :> File("tarExists"))
    @@ (XText :> File("text")) @@ (PathJoin(OutDir, NmReadme) :> File("text"))

InitExtract ==
    /\ fs = ExtractionFiles
    /\ dirs = {RootDir, OutDir, InDir}
    /\ clock = 0
    /\ subReg = EmptyRegistry
    /\ bulkReg = EmptyRegistry
    /\ rejected = EmptyRegistry
    /\ last = NoCall
    /\ ncalls = 0
    /\ manifests = EmptyRegistry
    /\ handle = NoHandle
    /\ registries = EmptyRegistry
    /\ documents = EmptyRegistry

\* the most calls to the extraction methods explored
MaxArchiveCalls == 3

\* what a call that returns a value, or raises, leaves behind
AfterQuery(op, r, source_file_path, destination_directory) ==
    /\ ncalls < MaxArchiveCalls
    /\ ncalls' = ncalls + 1
    /\ last' = [op |-> op, path |-> source_file_path, arg |-> destination_directory,
                raised |-> r.raised, why |-> "none", value |-> r.value,
                repeat |-> IsRepeat(op, source_file_path, destination_directory)]
    /\ UNCHANGED <<fs, dirs, clock, subReg, bulkReg, rejected, manifests, handle, registries, documents>>

CheckExtractPossible(source_file_path, destination_directory) ==
    AfterQuery("check_extract_possible",
               check_extract_possible(source_file_path, destination_directory),
               source_file_path, destination_directory)

IsExtractPossible(source_file_path, destination_directory) ==
    AfterQuery("is_extract_possible",
               is_extract_possible(source_file_path, destination_directory),
               source_file_path, destination_directory)

\* what a call to an extraction method leaves behind
AfterExtract(op, r, source_file_path, destination_directory) ==
    /\ ncalls < MaxArchiveCalls
    /\ ncalls' = ncalls + 1
    /\ fs' = r.fs
    /\ dirs' = r.dirs
    /\ last' = [op |-> op, path |-> source_file_path, arg |-> destination_directory,
                raised |-> r.raised, why |-> "none", value |-> <<>>,
                repeat |-> IsRepeat(op, source_file_path, destination_directory)]
    /\ UNCHANGED <<clock, subReg, bulkReg, rejected, manifests, handle, registries, documents>>

ExtractTarContents(source_file_path, destination_directory) ==
    AfterExtract("extract_tar_contents",
                 ExtractOutcome("tar", source_file_path, destination_directory),
                 source_file_path, destination_directory)

ExtractTgzContents(source_file_path, destination_directory) ==
    AfterExtract("extract_tgz_contents",
                 ExtractOutcome("tgz", source_file_path, destination_directory),
                 source_file_path, destination_directory)

ExtractGzipContents(source_file_path, destination_directory) ==
    AfterExtract("extract_gzip_contents",
                 ExtractOutcome("gzip", source_file_path, destination_directory),
                 source_file_path, destination_directory)

NextExtract ==
    \/ \E s \in ArchivePaths, d \in DestinationDirs : CheckExtractPossible(s, d)
    \/ \E s \in ArchivePaths, d \in DestinationDirs : IsExtractPossible(s, d)
    \/ \E s \in ArchivePaths, d \in DestinationDirs : ExtractTarContents(s, d)
    \/ \E s \in ArchivePaths, d \in DestinationDirs : ExtractTgzContents(s, d)
    \/ \E s \in ArchivePaths, d \in DestinationDirs : ExtractGzipContents(s, d)

SpecExtract == InitExtract /\ [][NextExtract]_vars

(***************************************************************************)
(* Properties of the registrars                                            *)
(***************************************************************************)
IsPrefix(s, t) == Len(s) <= Len(t) /\ SubSeq(t, 1, Len(s)) = s

\* a step of a registry that removes no key, changes no metadata and no
\* origin, and only appends to error_log and key_conflicts
WriteOnceStep(before, after) ==
    \A k \in DOMAIN before :
        /\ k \in DOMAIN after
        /\ after[k].metadata = before[k].metadata
        /\ after[k].origin = before[k].origin
        /\ IsPrefix(ErrorLogOf(before[k]), ErrorLogOf(after[k]))
        /\ IsPrefix(KeyConflictsOf(before[k]), KeyConflictsOf(after[k]))

\* C1: once a registrar holds an entry under a key, the key stays in the
\* registry and the entry's metadata and origin never change; later steps only
\* append to its diagnostics (error_log, key_conflicts).
C1_WriteOnce ==
    [][WriteOnceStep(subReg, subReg') /\ WriteOnceStep(bulkReg, bulkReg')]_vars

\* a submission entry that took two rejected registrations
C1_Witness ==
    /\ \E k \in DOMAIN subReg : Len(KeyConflictsOf(subReg[k])) = 2
    /\ ncalls = MaxCalls

\* the step is a call to the registrar method
IsCall(op) == last'.op = op /\ ncalls' = ncalls + 1

\* the step repeats the register_submission call of the step before it, on an
\* existing file with a valid submission name
RepeatsSubmission ==
    /\ last.op = "register_submission"
    /\ IsCall("register_submission")
    /\ last'.path = last.path
    /\ last'.arg = last.arg
    /\ is_file(last.path)
    /\ SubmissionNameTable[last.path]

\* C2 as stated: for every existing, validly named file F and parent key p, a
\* second register_submission(F, p) right after the first returns without
\* raising and leaves the registry as the first call left it.
C2_AsStated ==
    [][RepeatsSubmission => last'.raised = "none" /\ subReg' = subReg]_vars

\* C2: register_submission(F, p) repeated right after itself, on an existing
\* and validly named F, returns without raising and leaves the registry as it
\* was when F's key holds an entry with F's metadata (F wrote the entry, or
\* its metadata equals the first writer's); when the key holds an entry with
\* other metadata, the repeated call records one more rejected entry.
C2_Idempotent ==
    [][RepeatsSubmission =>
          IF IsConflictingCall(last.path, last.arg)
          THEN /\ last'.raised = "none"
               /\ \E k \in DOMAIN subReg :
                      /\ Len(KeyConflictsOf(subReg'[k])) = Len(KeyConflictsOf(subReg[k])) + 1
                      /\ \A j \in DOMAIN subReg \ {k} : subReg'[j] = subReg[j]
          ELSE last'.raised = "none" /\ subReg' = subReg]_vars

\* a repeated call on a file whose key holds the file's own metadata
C2_Witness ==
    /\ last.op = "register_submission"
    /\ last.repeat
    /\ last.raised = "none"
    /\ ~IsConflictingCall(last.path, last.arg)
    /\ Cardinality(DOMAIN subReg) = 1

\* the step repeats the register_bulk_archive call of the step before it,
\* which returned
RepeatsBulkArchive ==
    /\ last.op = "register_bulk_archive"
    /\ last.raised = "none"
    /\ IsCall("register_bulk_archive")
    /\ last'.path = last.path

DiffersInAnyPart(registry, g) ==
    /\ g.key \in DOMAIN registry
    /\ \/ registry[g.key].metadata # g.entry.metadata
       \/ registry[g.key].origin # g.entry.origin

\* the call of the step computes a key whose entry satisfies Differs
SubmissionCallOn(Differs(_, _)) ==
    /\ IsCall("register_submission")
    /\ is_file(last'.path)
    /\ SubmissionNameTable[last'.path]
    /\ Differs(subReg, Submission_generate_registry_entry(last'.path, last'.arg))

\* the call of the step returned and appended its entry to key_conflicts
ConflictAppended ==
    LET g == Submission_generate_registry_entry(last'.path, last'.arg)
    IN  /\ last'.raised = "none"
        /\ KeyConflictsOf(subReg'[g.key]) =
               Append(KeyConflictsOf(subReg[g.key]), SubmissionCandidate(g))

CountIn(x, seq) == Cardinality({i \in DOMAIN seq : seq[i] = x})

\* C5: after the calls register_submission rejected for key k as conflicts,
\* the entry under k holds in diagnostics.key_conflicts exactly the rejected
\* entries, one per call and in call order, and 'key conflicts' occurs exactly
\* once in its error_log, whatever the log held before; an entry no call
\* conflicted with has neither.
C5_ConflictRecord ==
    /\ \A k \in DOMAIN rejected :
           /\ k \in DOMAIN subReg
           /\ KeyConflictsOf(subReg[k]) = rejected[k]
           /\ CountIn(ErrKeyConflicts, ErrorLogOf(subReg[k])) = 1
    /\ \A k \in DOMAIN subReg \ DOMAIN rejected :
           /\ ~HasKeyConflicts(subReg[k])
           /\ ~InSeq(ErrKeyConflicts, ErrorLogOf(subReg[k]))

\* an entry whose log held pipeline errors took two conflicting calls
C5_Witness ==
    \E k \in DOMAIN rejected :
        /\ Len(rejected[k]) = 2
        /\ Len(ErrorLogOf(subReg[k])) >= 2
        /\ ErrorLogOf(subReg[k])[1] # ErrKeyConflicts

\* C6: when the bulk pipeline reports any error for the file (bad name,
\* missing file, wrong extension or format, unsafe extraction, a member that
\* is no submission name), register_bulk_archive raises and the registry is
\* unchanged.
C6_BulkFailClosed ==
    [][IsCall("register_bulk_archive") /\ check_bulk_archive(last'.path) # <<>>
          => last'.raised # "none" /\ bulkReg' = bulkReg]_vars

\* a bulk registration refused for the errors of the pipeline, next to an
\* archive registered before it
C6_Witness ==
    /\ last.op = "register_bulk_archive"
    /\ last.why = "has errors"
    /\ check_bulk_archive(last.path) # <<>>
    /\ bulkReg # EmptyRegistry

\* the generated entry is written under its key with the errors as its log
WrittenWithLog(registry, g) ==
    /\ g.key \in DOMAIN registry
    /\ registry[g.key].metadata = g.entry.metadata
    /\ registry[g.key].origin = g.entry.origin
    /\ ErrorLogOf(registry[g.key]) = g.errors
    /\ (g.errors = <<>> => ~HasDiagnostics(registry[g.key]))
    /\ (g.errors # <<>> => DOMAIN registry[g.key].diagnostics = {"error_log"})

\* the key of the generated entry is not in the registry
KeyAbsent(registry, g) == g.key \notin DOMAIN registry

\* C7: when register_submission computes a key that is absent and the
\* pipeline returns the error list E, the call does not raise and the entry is
\* written under the key; its diagnostics.error_log is E when E is not empty,
\* and it has no diagnostics when E is empty.
C7_SubmissionFailOpen ==
    [][SubmissionCallOn(KeyAbsent) =>
          /\ last'.raised = "none"
          /\ WrittenWithLog(subReg',
                 Submission_generate_registry_entry(last'.path, last'.arg))]_vars

\* the first call registered a file the pipeline found errors in
C7_Witness ==
    /\ ncalls = 1
    /\ last.op = "register_submission"
    /\ last.raised = "none"
    /\ \E k \in DOMAIN subReg : ErrorLogOf(subReg[k]) # <<>>

\* register_bulk_archive reaches its key test and finds the key held by a
\* different entry
BulkKeyHeldByOther(file_path) ==
    /\ is_file(file_path)
    /\ BulkArchiveNameTable[file_path]
    /\ find_bulk_archive_filename(bulkReg, file_path) = {}
    /\ check_bulk_archive(file_path) = <<>>
    /\ Bulk_generate_registry_entry(file_path).key \in DOMAIN bulkReg
    /\ bulkReg[Bulk_generate_registry_entry(file_path).key]
           # Bulk_generate_registry_entry(file_path).entry

\* C8: when register_bulk_archive computes a key that is present with a
\* different entry, it raises KeyError and the registry is unchanged.
C8_BulkKeyError ==
    [][IsCall("register_bulk_archive") /\ BulkKeyHeldByOther(last'.path)
          => last'.raised = "KeyError" /\ bulkReg' = bulkReg]_vars

\* a bulk registration refused with KeyError on a registry that holds the key
C8_Witness ==
    /\ last.op = "register_bulk_archive"
    /\ last.raised = "KeyError"
    /\ <<"SHA256", fs[last.path].content>> \in DOMAIN bulkReg

\* the step calls register_submission on an existing file whose name is no
\* valid submission name
InvalidNameCall ==
    /\ IsCall("register_submission")
    /\ is_file(last'.path)
    /\ ~SubmissionNameTable[last'.path]

\* C9 as stated: register_submission on an existing file with an invalid name
\* does not raise for the name; the name is left to the pipeline and the entry
\* is still written, the finding in its error_log.
C9_AsStated ==
    [][InvalidNameCall =>
          /\ last'.raised = "none"
          /\ <<"SHA256", fs[last'.path].content>> \in DOMAIN subReg']_vars

\* C9: register_submission on an existing file whose name is no valid
\* submission name raises ValueError before the pipeline runs, and the
\* registry is unchanged: no entry is written for the file.
C9_InvalidNameRaises ==
    [][InvalidNameCall => last'.raised = "ValueError" /\ subReg' = subReg]_vars

\* a registration refused for the name of an existing file
C9_Witness ==
    /\ last.op = "register_submission"
    /\ last.raised = "ValueError"
    /\ is_file(last.path)
    /\ ~SubmissionNameTable[last.path]

(***************************************************************************)
(* Properties of the extraction methods                                    *)
(***************************************************************************)
\* a member name with a '..' segment, or an absolute one, which resolves
\* outside any directory it is joined to
IsTraversalName(name) ==
    \/ \E i \in DOMAIN SplitSlash(name) : SplitSlash(name)[i] = <<".", ".">>
    \/ (name # <<>> /\ name[1] = "/")

HasTraversalName(members) == \E i \in DOMAIN members : IsTraversalName(members[i])

HasCaseCollision(members) ==
    \E i, j \in DOMAIN members : i # j /\ Lower(members[i]) = Lower(members[j])

HasExistingTarget(members, destination_directory) ==
    \E i \in DOMAIN members : is_file(PathJoin(destination_directory, members[i]))

\* the source is an existing archive, the destination an existing directory,
\* and the member list has one of the three defects
UnsafeArchive(source_file_path, destination_directory) ==
    /\ is_file(source_file_path)
    /\ is_directory(destination_directory)
    /\ is_archive_format(source_file_path)
    /\ \/ HasTraversalName(Members(fs[source_file_path].content))
       \/ HasCaseCollision(Members(fs[source_file_path].content))
       \/ HasExistingTarget(Members(fs[source_file_path].content), destination_directory)

ExtractionMethods ==
    {"extract_tar_contents", "extract_tgz_contents", "extract_gzip_contents"}

CategoryOf(e) ==
    IF e = ErrFileNotFound THEN 1 ELSE IF e = ErrNoDirectory THEN 2 ELSE 3

Categories(error_log) == {CategoryOf(error_log[i]) : i \in DOMAIN error_log}

\* the step is a call of check_extract_possible
IsCheckCall == last'.op = "check_extract_possible"

\* C11 as stated: the list check_extract_possible returns never holds errors
\* of two of the categories source file, destination directory, member names.
C11_AsStated ==
    [][IsCheckCall /\ last'.raised = "none"
          => Cardinality(Categories(last'.value)) <= 1]_vars

\* C11: check_extract_possible tests the source file and the destination
\* directory independently and reports each that fails, so both errors can be
\* in one list; the members are enumerated and their names checked only when
\* both tests pass: when one fails the call returns exactly the failing ones
\* of the two errors, also for a source that is no archive, and when both pass
\* the call raises for a source that is no archive and otherwise returns
\* member-name errors only.
C11_ShortCircuit ==
    [][IsCheckCall =>
          IF is_file(last'.path) /\ is_directory(last'.arg)
          THEN IF is_archive_format(last'.path)
               THEN last'.raised = "none" /\ Categories(last'.value) \subseteq {3}
               ELSE last'.raised = "TypeError"
          ELSE /\ last'.raised = "none"
               /\ last'.value =
                      (IF ~is_file(last'.path) THEN <<ErrFileNotFound>> ELSE <<>>)
                      \o (IF ~is_directory(last'.arg) THEN <<ErrNoDirectory>> ELSE <<>>)]_vars

\* a check of a missing source against a missing destination reported both
C11_Witness ==
    /\ last.op = "check_extract_possible"
    /\ last.value = <<ErrFileNotFound, ErrNoDirectory>>
    /\ ~is_file(last.path)
    /\ ~is_directory(last.arg)

(***************************************************************************)
(* Manifest                                                                *)
(*                                                                         *)
(* A manifest is its manifest_timestamp_iso and its contents, a function   *)
(* from keys (bulk archive basenames) to the MD5 digest of the entry.      *)
(* import_arxiv_xml writes the timestamp as the UTC ISO text of an         *)
(* instant, one text per instant, so a timestamp is modelled by the        *)
(* instant: equal texts are equal instants and fromisoformat orders them.  *)
(***************************************************************************)
ManifestKeys == {"arXiv_src_0001_001.tar", "arXiv_src_0001_002.tar"}

Digests == {"md5-1", "md5-2"}

\* the latest manifest timestamp explored
MaxStamp == 2

ManifestContents == UNION {[K -> Digests] : K \in SUBSET ManifestKeys}

Manifests == [stamp : 0..MaxStamp, contents : ManifestContents]

\* Manifest.list_keys
list_keys(manifest) == DOMAIN manifest.contents

\* TimeService.is_iso_timestamp_newer
is_iso_timestamp_newer(iso_timestamp1, iso_timestamp2) == iso_timestamp1 > iso_timestamp2

\* key tests that are left out when the other manifest has the later timestamp
NewerOutcome_older_unchecked(is_same_timestamp, is_timestamp_newer, in_current_only, in_other_only) ==
    IF is_same_timestamp
    THEN IF in_current_only # {} \/ in_other_only # {}
         THEN Raised("ValueError")
         ELSE Returned(FALSE)
    ELSE IF is_timestamp_newer
    THEN IF in_current_only = {} THEN Raised("ValueError")
         ELSE IF in_other_only # {} THEN Raised("ValueError")
         ELSE Returned(TRUE)
    ELSE Returned(FALSE)

\* the key tests of is_newer_than once the timestamps were compared
NewerOutcome(is_same_timestamp, is_timestamp_newer, in_current_only, in_other_only) ==
    IF is_same_timestamp
    THEN IF in_current_only # {} \/ in_other_only # {}
         THEN Raised("ValueError")
         ELSE Returned(FALSE)
    ELSE IF is_timestamp_newer
    THEN IF in_current_only = {} THEN Raised("ValueError")
         ELSE IF in_other_only # {} THEN Raised("ValueError")
         ELSE Returned(TRUE)
    ELSE IF in_other_only = {} THEN Raised("ValueError")
         ELSE IF in_current_only # {} THEN Raised("ValueError")
         ELSE Returned(FALSE)

\* an order test that accepts a newer manifest with entries deleted
is_newer_than_deletions_accepted(self, other_manifest) ==
    NewerOutcome(self.stamp = other_manifest.stamp,
                 is_iso_timestamp_newer(self.stamp, other_manifest.stamp),
                 list_keys(self) \ list_keys(other_manifest), {})

\* Manifest.is_newer_than
is_newer_than(self, other_manifest) ==
    NewerOutcome(self.stamp = other_manifest.stamp,
                 is_iso_timestamp_newer(self.stamp, other_manifest.stamp),
                 list_keys(self) \ (list_keys(self) \cap list_keys(other_manifest)),
                 list_keys(other_manifest) \ (list_keys(self) \cap list_keys(other_manifest)))

\* a method of Manifest that requires self to be newer than the reference:
\* the error of is_newer_than, ValueError when it returns False, the keys
\* otherwise
RequireNewer(newer, keys) ==
    IF newer.raised # "none" THEN newer
    ELSE IF ~newer.value THEN Raised("ValueError")
    ELSE Returned(keys)

\* a difference of key sets that does not look at the order of the manifests
find_new_entries_order_unchecked(self, reference_manifest) ==
    Returned(list_keys(self) \ list_keys(reference_manifest))

\* Manifest.find_new_entries
find_new_entries(self, reference_manifest) ==
    RequireNewer(is_newer_than(self, reference_manifest),
                 list_keys(self) \ list_keys(reference_manifest))

\* a search that counts a key the reference lacks as updated
find_updated_entries_with_new_keys(self, reference_manifest) ==
    RequireNewer(is_newer_than(self, reference_manifest),
                 {key \in list_keys(self) :
                     \/ key \notin list_keys(reference_manifest)
                     \/ self.contents[key] # reference_manifest.contents[key]})

\* Manifest.find_updated_entries
find_updated_entries(self, reference_manifest) ==
    RequireNewer(is_newer_than(self, reference_manifest),
                 {key \in list_keys(self) \cap list_keys(reference_manifest) :
                     self.contents[key] # reference_manifest.contents[key]})

(***************************************************************************)
(* The manifest methods at work                                            *)
(***************************************************************************)
ManifestIds == {<<"M1">>, <<"M2">>}

InitManifest ==
    /\ fs = EmptyRegistry
    /\ dirs = {}
    /\ clock = 0
    /\ subReg = EmptyRegistry
    /\ bulkReg = EmptyRegistry
    /\ rejected = EmptyRegistry
    /\ last = NoCall
    /\ ncalls = 0
    /\ manifests \in [ManifestIds -> Manifests]
    /\ handle = NoHandle
    /\ registries = EmptyRegistry
    /\ documents = EmptyRegistry

\* what a call of a method of manifest a with manifest b leaves behind
AfterManifestCall(op, r, a, b) ==
    /\ last' = [op |-> op, path |-> a, arg |-> b, raised |-> r.raised, why |-> "none",
                value |-> r.value, repeat |-> IsRepeat(op, a, b)]
    /\ UNCHANGED <<fs, dirs, clock, subReg, bulkReg, rejected, ncalls, manifests, handle,
                   registries, documents>>

IsNewerThan(a, b) ==
    AfterManifestCall("is_newer_than", is_newer_than(manifests[a], manifests[b]), a, b)

FindNewEntries(a, b) ==
    AfterManifestCall("find_new_entries", find_new_entries(manifests[a], manifests[b]), a, b)

FindUpdatedEntries(a, b) ==
    AfterManifestCall("find_updated_entries",
                      find_updated_entries(manifests[a], manifests[b]), a, b)

NextManifest ==
    \/ \E a, b \in ManifestIds : IsNewerThan(a, b)
    \/ \E a, b \in ManifestIds : FindNewEntries(a, b)
    \/ \E a, b \in ManifestIds : FindUpdatedEntries(a, b)

SpecManifest == InitManifest /\ [][NextManifest]_vars

(***************************************************************************)
(* Properties of the manifest methods                                      *)
(***************************************************************************)
StrictSubset(A, B) == A \subseteq B /\ A # B

\* the latest call: its manifests
Self == manifests[last.path]

Other == manifests[last.arg]

\* self is the newer of the pair and its keys strictly extend the other's
StrictlyNewer(a, b) == a.stamp > b.stamp /\ StrictSubset(list_keys(b), list_keys(a))

\* the pair is one is_newer_than returns for
Accepted(a, b) ==
    IF a.stamp = b.stamp THEN list_keys(a) = list_keys(b)
    ELSE IF a.stamp > b.stamp THEN StrictSubset(list_keys(b), list_keys(a))
    ELSE StrictSubset(list_keys(a), list_keys(b))

\* C12: a.is_newer_than(b) with equal timestamps raises iff the key sets
\* differ and otherwise returns False; with different timestamps it raises
\* unless the keys of the older are a strict subset of the keys of the newer,
\* and otherwise returns True iff a's timestamp is the later one; whenever it
\* returns True the keys of b are a strict subset of the keys of a.
C12_IsNewerThan ==
    last.op = "is_newer_than" =>
        /\ last.raised \in {"none", "ValueError"}
        /\ last.raised = "none" <=> Accepted(Self, Other)
        /\ last.raised = "none" => last.value = (Self.stamp > Other.stamp)
        /\ (last.raised = "none" /\ last.value) =>
               StrictSubset(list_keys(Other), list_keys(Self))

\* is_newer_than returned True for a manifest with two keys and an older one
\* with one of them
C12_Witness ==
    /\ last.op = "is_newer_than"
    /\ last.raised = "none"
    /\ last.value
    /\ Cardinality(list_keys(Self)) = 2
    /\ Cardinality(list_keys(Other)) = 1

\* C13: find_new_entries(newer, older) returns the keys of newer that older
\* lacks when newer.is_newer_than(older) is True, and raises whenever its first
\* argument is not strictly newer than the second: older, of the same
\* timestamp, or a valid pair reversed.
C13_FindNewEntries ==
    last.op = "find_new_entries" =>
        IF StrictlyNewer(Self, Other)
        THEN /\ last.raised = "none"
             /\ last.value = list_keys(Self) \ list_keys(Other)
        ELSE last.raised = "ValueError"

\* M1 (later, two keys) against M2 (earlier, one of the keys) returned the
\* other key
C13_Witness ==
    /\ last.op = "find_new_entries"
    /\ last.raised = "none"
    /\ Cardinality(list_keys(Self)) = 2
    /\ Cardinality(list_keys(Other)) = 1
    /\ Cardinality(last.value) = 1
    /\ last.value \cap list_keys(Other) = {}

\* C14: find_updated_entries(newer, older) returns the keys held by both
\* manifests whose MD5 digests differ, never a key older lacks, so the result
\* is disjoint from find_new_entries(newer, older); it raises whenever its
\* first argument is not strictly newer than the second.
C14_FindUpdatedEntries ==
    last.op = "find_updated_entries" =>
        IF StrictlyNewer(Self, Other)
        THEN /\ last.raised = "none"
             /\ last.value = {key \in list_keys(Self) \cap list_keys(Other) :
                                 Self.contents[key] # Other.contents[key]}
             /\ last.value \cap find_new_entries(Self, Other).value = {}
        ELSE last.raised = "ValueError"

\* an updated key was found next to a new one
C14_Witness ==
    /\ last.op = "find_updated_entries"
    /\ last.raised = "none"
    /\ last.value # {}
    /\ list_keys(Self) \ list_keys(Other) # {}

(***************************************************************************)
(* Format detection with the errors of the readers                         *)
(*                                                                         *)
(* The contents below add an empty file, gzip streams cut inside the       *)
(* header and inside the compressed data, a gzip stream whose compressed   *)
(* data is no deflate stream, and a LaTeX 2e main file.  The two readers   *)
(* are given by what the library does on such bytes: tarfile.is_tarfile    *)
(* lets the EOFError of a cut gzip stream through, and gzip.open(...)      *)
(* .read(1), where only BadGzipFile is caught, reads an empty file without *)
(* error, raises EOFError on a cut header and zlib.error on bad data.      *)
(***************************************************************************)
DamagedContents == {"empty", "gzCutHeader", "gzCutBody", "gzBadDeflate"}

FormatContents == {"tarPlain", "tgzPlain", "gzPlain", "text", "latex2e"} \cup DamagedContents

\* ArchiveHandler._is_tar_or_tgz_format: tarfile.is_tarfile on the bytes
TarProbe(c) ==
    IF c \in {"gzCutHeader", "gzCutBody"} THEN Raised("EOFError")
    ELSE Returned(c \in TarContents)

\* ArchiveHandler._is_gzip_or_tgz_format: one byte read through gzip.open
GzipProbe(c) ==
    CASE c = "gzCutHeader" -> Raised("EOFError")
      [] c = "gzBadDeflate" -> Raised("zlib.error")
      [] c \in {"empty", "gzCutBody"} -> Returned(TRUE)
      [] OTHER -> Returned(c \in GzipContents)

\* the combination of the two probes each format test computes
CombineProbes(kind, tar, gzip) ==
    IF tar.raised # "none" THEN tar
    ELSE IF gzip.raised # "none" THEN gzip
    ELSE Returned(CASE kind = "tar" -> tar.value /\ ~gzip.value
                    [] kind = "gzip" -> gzip.value /\ ~tar.value
                    [] kind = "tgz" -> gzip.value /\ tar.value)

\* ArchiveHandler.is_tar_format / is_gzip_format / is_tgz_format as calls:
\* what they return or raise
FormatTest(kind, path) ==
    IF ~is_file(path) THEN Raised("FileNotFoundError")
    ELSE CombineProbes(kind, TarProbe(fs[path].content), GzipProbe(fs[path].content))

\* the chain of ArchiveHandler.get_file_type_from_format over the outcomes of
\* the three tests
FormatChain(tar, tgz, gzip) ==
    IF tar.raised # "none" THEN tar
    ELSE IF tar.value THEN Returned("ARCHIVE_TAR")
    ELSE IF tgz.raised # "none" THEN tgz
    ELSE IF tgz.value THEN Returned("ARCHIVE_TGZ")
    ELSE IF gzip.raised # "none" THEN gzip
    ELSE IF gzip.value THEN Returned("ARCHIVE_GZ")
    ELSE Returned(FILE_TYPE_UNKNOWN)

\* ArchiveHandler.get_file_type_from_format as a call
ArchiveFormatCall(path) ==
    FormatChain(FormatTest("tar", path), FormatTest("tgz", path), FormatTest("gzip", path))

\* what the get_file_type_from_format of a handler other than the archive
\* handler reports; TexHandler finds the LaTeX 2e patterns in the UTF-8 text
FormatDetected(c, handler) ==
    IF c = "latex2e" /\ handler = "Tex" THEN "TEX_LATEX_2E_MAIN" ELSE Detected(c, handler)

HandlerFormatCall(handler, path) ==
    IF handler = "Archive" THEN ArchiveFormatCall(path)
    ELSE Returned(FormatDetected(fs[path].content, handler))

\* the loop of FileHandler.get_file_type_from_format: the first handler that
\* raises or reports a known type decides
RECURSIVE FirstKnownOutcome(_, _)
FirstKnownOutcome(handlers, path) ==
    IF handlers = <<>> THEN Returned(FILE_TYPE_UNKNOWN)
    ELSE LET r == HandlerFormatCall(Head(handlers), path)
         IN  IF r.raised # "none" \/ r.value # FILE_TYPE_UNKNOWN THEN r
             ELSE FirstKnownOutcome(Tail(handlers), path)

\* the same bytes under a .tar name, a .tex name, a name without extension
\* and a name with an extension no handler maps
FTar == <<"i", "n", "/", "x", ".", "t", "a", "r">>
FTex == <<"i", "n", "/", "x", ".", "T", "e", "X">>
FBare == <<"i", "n", "/", "x">>
FMissing == <<"i", "n", "/", "n", "o", "n", "e", ".", "g", "z">>

FormatPaths == {FTar, FTex, FBare}

FormatHandlersTable ==
    [n \in FormatPaths \cup {FMissing} |->
        get_file_handlers_from_extension(Lower(get_file_extension(n)))]

\* a lookup that tries every handler when the extension selects none
FileFormatCall_all_handlers_fallback(path, use_extension) ==
    IF ~is_file(path) THEN Raised("FileNotFoundError")
    ELSE FirstKnownOutcome(IF use_extension /\ FormatHandlersTable[path] # <<>>
                           THEN FormatHandlersTable[path] ELSE FileHandlers, path)

\* FileHandler.get_file_type_from_format as a call
FileFormatCall(path, use_extension) ==
    IF ~is_file(path) THEN Raised("FileNotFoundError")
    ELSE FirstKnownOutcome(IF use_extension THEN FormatHandlersTable[path] ELSE FileHandlers,
                           path)

(***************************************************************************)
(* Format detection at work: every file name holds any of the contents     *)
(***************************************************************************)
InitFormat ==
    /\ fs \in [FormatPaths -> {File(c) : c \in FormatContents}]
    /\ dirs = {InDir}
    /\ clock = 0
    /\ subReg = EmptyRegistry
    /\ bulkReg = EmptyRegistry
    /\ rejected = EmptyRegistry
    /\ last = NoCall
    /\ ncalls = 0
    /\ manifests = EmptyRegistry
    /\ handle = NoHandle
    /\ registries = EmptyRegistry
    /\ documents = EmptyRegistry

AfterFormatCall(op, r, path, arg) ==
    /\ last' = [op |-> op, path |-> path, arg |-> arg, raised |-> r.raised, why |-> "none",
                value |-> r.value, repeat |-> IsRepeat(op, path, arg)]
    /\ UNCHANGED <<fs, dirs, clock, subReg, bulkReg, rejected, ncalls, manifests, handle,
                   registries, documents>>

IsTarFormat(path) == AfterFormatCall("is_tar_format", FormatTest("tar", path), path, <<>>)

IsGzipFormat(path) == AfterFormatCall("is_gzip_format", FormatTest("gzip", path), path, <<>>)

IsTgzFormat(path) == AfterFormatCall("is_tgz_format", FormatTest("tgz", path), path, <<>>)

ArchiveFormat(path) ==
    AfterFormatCall("ArchiveHandler.get_file_type_from_format", ArchiveFormatCall(path),
                    path, <<>>)

FileFormat(path, use_extension) ==
    AfterFormatCall("FileHandler.get_file_type_from_format",
                    FileFormatCall(path, use_extension), path, <<use_extension>>)

NextFormat ==
    \/ \E path \in FormatPaths \cup {FMissing} : IsTarFormat(path)
    \/ \E path \in FormatPaths \cup {FMissing} : IsGzipFormat(path)
    \/ \E path \in FormatPaths \cup {FMissing} : IsTgzFormat(path)
    \/ \E path \in FormatPaths \cup {FMissing} : ArchiveFormat(path)
    \/ \E path \in FormatPaths \cup {FMissing}, use_extension \in BOOLEAN :
           FileFormat(path, use_extension)

SpecFormat == InitFormat /\ [][NextFormat]_vars

(***************************************************************************)
(* Properties of format detection                                          *)
(***************************************************************************)
\* the bytes of the file of the latest call
Bytes == fs[last.path].content

\* C15 as stated: for every existing file ArchiveHandler.get_file_type_from_format
\* returns one of the four outcomes: TAR iff the file is tar-valid and not
\* gzip-valid, TGZ iff it is both, GZ iff it is gzip-valid and not tar-valid,
\* UNKNOWN iff it is neither, where a file is tar-valid (gzip-valid) iff the
\* tar (gzip) reader accepts it.
C15_AsStated ==
    (last.op = "ArchiveHandler.get_file_type_from_format" /\ is_file(last.path)) =>
        /\ last.raised = "none"
        /\ last.value \in {"ARCHIVE_TAR", "ARCHIVE_TGZ", "ARCHIVE_GZ", FILE_TYPE_UNKNOWN}

\* the classification of an existing file ended in the EOFError of a reader
C15_Failure ==
    /\ last.op = "ArchiveHandler.get_file_type_from_format"
    /\ is_file(last.path)
    /\ Bytes = "gzCutHeader"
    /\ last.raised = "EOFError"

\* the existing files that hold the bytes of the file of the latest call
SameBytes == {q \in DOMAIN fs : fs[q].content = Bytes}

IsFileFormatCall ==
    last.op = "FileHandler.get_file_type_from_format" /\ is_file(last.path)

PyValue(type, items) == [type |-> type, items |-> items]

EntryInt == [pages |-> PyValue("int", <<42>>)]

EntryTuple == [pages |-> PyValue("tuple", <<1, 2>>)]

EntryList == [pages |-> PyValue("list", <<1, 2>>)]

\* the entries a caller passes
CallerEntries == {EntryInt, EntryTuple}

HashKeys == {"key1", "key2"}

\* json.dump of one value
dump_value(value) ==
    [type |-> CASE value.type = "int" -> "number"
                [] value.type \in {"list", "tuple"} -> "array",
     items |-> value.items]

\* json.load of one value
load_value(json) ==
    [type |-> CASE json.type = "number" -> "int"
                [] json.type = "array" -> "list",
     items |-> json.items]

\* json.dump(self._registry, ...)
json_dump(registry) ==
    [k \in DOMAIN registry |->
        [f \in DOMAIN registry[k] |-> dump_value(registry[k][f])]]

\* json.load(file_handle)
json_load(text) ==
    [k \in DOMAIN text |-> [f \in DOMAIN text[k] |-> load_value(text[k][f])]]

\* Registry.get_entry
Registry_get_entry(registry, hash_key) ==
    IF hash_key \notin DOMAIN registry THEN Raised("KeyError")
    ELSE Returned(registry[hash_key])

\* an add that replaces the entry of a held key
Registry_add_entry_overwrites(registry, hash_key, entry) ==
    [raised |-> "none", registry |-> add_entry(registry, hash_key, entry)]

\* Registry.add_entry as a call: what it raises and the registry after it
Registry_add_entry(registry, hash_key, entry) ==
    IF hash_key \in DOMAIN registry THEN [raised |-> "KeyError", registry |-> registry]
    ELSE [raised |-> "none", registry |-> add_entry(registry, hash_key, entry)]

\* Registry.update_entry
Registry_update_entry(registry, hash_key, entry) ==
    IF hash_key \notin DOMAIN registry THEN [raised |-> "KeyError", registry |-> registry]
    ELSE [raised |-> "none", registry |-> [registry EXCEPT ![hash_key] = entry]]

\* Registry.delete_entry
Registry_delete_entry(registry, hash_key) ==
    IF hash_key \notin DOMAIN registry THEN [raised |-> "KeyError", registry |-> registry]
    ELSE [raised |-> "none",
          registry |-> [k \in DOMAIN registry \ {hash_key} |-> registry[k]]]

\* Registry.save: the document written
Registry_save(registry) == [text |-> json_dump(registry), saved_from |-> registry]

\* a load that keeps the entries of keys the document lacks
Registry_load_merging(registry, file_path) ==
    IF file_path \notin DOMAIN documents
    THEN [raised |-> "FileNotFoundError", registry |-> EmptyRegistry]
    ELSE [raised |-> "none", registry |-> json_load(documents[file_path].text) @@ registry]

\* a load that looks for the file first and clears the registry afterwards
Registry_load_file_tested_first(registry, file_path) ==
    IF file_path \notin DOMAIN documents
    THEN [raised |-> "FileNotFoundError", registry |-> registry]
    ELSE [raised |-> "none", registry |-> json_load(documents[file_path].text)]

\* Registry.load: the registry is cleared, then the file is looked for and read
Registry_load(registry, file_path) ==
    IF file_path \notin DOMAIN documents
    THEN [raised |-> "FileNotFoundError", registry |-> EmptyRegistry]
    ELSE [raised |-> "none", registry |-> json_load(documents[file_path].text)]

(***************************************************************************)
(* Two registries and one file at work                                     *)
(***************************************************************************)
RegistryIds == {<<"r">>, <<"r2">>}

DocPath == <<"r", "e", "g", "i", "s", "t", "r", "y", ".", "j", "s", "o", "n">>

InitRegistry ==
    /\ fs = EmptyRegistry
    /\ dirs = {}
    /\ clock = 0
    /\ subReg = EmptyRegistry
    /\ bulkReg = EmptyRegistry
    /\ rejected = EmptyRegistry
    /\ last = NoCall
    /\ ncalls = 0
    /\ manifests = EmptyRegistry
    /\ handle = NoHandle
    /\ registries = [id \in RegistryIds |-> EmptyRegistry]
    /\ documents = EmptyRegistry

\* what a call on registry id leaves behind; value is the entry passed or
\* returned, for load the registry held before the call
AfterRegistryCall(op, raised, registry, id, arg, value) ==
    /\ registries' = [registries EXCEPT ![id] = registry]
    /\ last' = [op |-> op, path |-> id, arg |-> arg, raised |-> raised, why |-> "none",
                value |-> value, repeat |-> FALSE]
    /\ UNCHANGED <<fs, dirs, clock, subReg, bulkReg, rejected, ncalls, manifests, handle>>

AfterRegistryUpdate(op, r, id, hash_key, entry) ==
    AfterRegistryCall(op, r.raised, r.registry, id, <<hash_key>>, entry) /\ UNCHANGED documents

AddEntry(id, hash_key, entry) ==
    AfterRegistryUpdate("add_entry", Registry_add_entry(registries[id], hash_key, entry),
                        id, hash_key, entry)

UpdateEntry(id, hash_key, entry) ==
    AfterRegistryUpdate("update_entry",
                        Registry_update_entry(registries[id], hash_key, entry),
                        id, hash_key, entry)

DeleteEntry(id, hash_key) ==
    AfterRegistryUpdate("delete_entry", Registry_delete_entry(registries[id], hash_key),
                        id, hash_key, <<>>)

GetEntry(id, hash_key) ==
    /\ AfterRegistryCall("get_entry", Registry_get_entry(registries[id], hash_key).raised,
                         registries[id], id, <<hash_key>>,
                         Registry_get_entry(registries[id], hash_key).value)
    /\ UNCHANGED documents

Save(id) ==
    /\ AfterRegistryCall("save", "none", registries[id], id, DocPath, <<>>)
    /\ documents' = (DocPath :> Registry_save(registries[id]))

Load(id) ==
    /\ AfterRegistryCall("load", Registry_load(registries[id], DocPath).raised,
                         Registry_load(registries[id], DocPath).registry, id, DocPath,
                         registries[id])
    /\ UNCHANGED documents

NextRegistry ==
    \/ \E id \in RegistryIds, k \in HashKeys, e \in CallerEntries : AddEntry(id, k, e)
    \/ \E id \in RegistryIds, k \in HashKeys, e \in CallerEntries : UpdateEntry(id, k, e)
    \/ \E id \in RegistryIds, k \in HashKeys : DeleteEntry(id, k)
    \/ \E id \in RegistryIds, k \in HashKeys : GetEntry(id, k)
    \/ \E id \in RegistryIds : Save(id)
    \/ \E id \in RegistryIds : Load(id)

SpecRegistry == InitRegistry /\ [][NextRegistry]_vars

(***************************************************************************)
(* Properties of Registry                                                  *)
(***************************************************************************)
\* the registry a step calls, before and after the call, and the key passed
Before == registries[last'.path]

After == registries'[last'.path]

Key == last'.arg[1]

\* the step leaves every key but the one passed as it was
OthersUntouched ==
    /\ DOMAIN After \ {Key} = DOMAIN Before \ {Key}
    /\ \A k \in DOMAIN Before \ {Key} : After[k] = Before[k]
    /\ \A id \in RegistryIds \ {last'.path} : registries'[id] = registries[id]

C17Step ==
    last'.op \in {"add_entry", "update_entry", "delete_entry", "get_entry"} =>
        /\ last'.raised \in {"none", "KeyError"}
        /\ last'.raised = "KeyError" <=>
               IF last'.op = "add_entry" THEN Key \in DOMAIN Before
               ELSE Key \notin DOMAIN Before
        /\ last'.raised = "KeyError" => registries' = registries
        /\ OthersUntouched
        /\ (last'.raised = "none" /\ last'.op \in {"add_entry", "update_entry"}) =>
               (Key \in DOMAIN After /\ After[Key] = last'.value)
        /\ (last'.raised = "none" /\ last'.op = "delete_entry") => Key \notin DOMAIN After
        /\ (last'.raised = "none" /\ last'.op = "get_entry") =>
               (registries' = registries /\ last'.value = Before[Key])

\* C17: Registry.add_entry raises KeyError iff the key is present;
\* update_entry, delete_entry and get_entry raise KeyError iff it is absent; a
\* raising call leaves the registry unchanged; a successful add or update
\* stores the entry under that key, a successful delete removes that key, and
\* every other key and entry is untouched.
C17_Registry == [][C17Step]_vars

\* a key was deleted from a registry that keeps its other key
C17_Witness ==
    /\ last.op = "delete_entry"
    /\ last.raised = "none"
    /\ Cardinality(DOMAIN registries[last.path]) = 1
    /\ last.arg[1] \notin DOMAIN registries[last.path]

\* the registry the file was saved from
Saved == documents[DocPath].saved_from

IsLoaded == last.op = "load" /\ last.raised = "none"

\* a registry with every tuple read as the list of its items
AsLists(registry) ==
    [k \in DOMAIN registry |->
        [f \in DOMAIN registry[k] |->
            IF registry[k][f].type = "tuple"
            THEN PyValue("list", registry[k][f].items)
            ELSE registry[k][f]]]

HasTuple(registry) ==
    \E k \in DOMAIN registry : \E f \in DOMAIN registry[k] : registry[k][f].type = "tuple"

\* C19 as stated: after r.save(p) followed by r2.load(p) the key-to-entry
\* mapping of r2 equals the one r had when it was saved, whatever r2 held
\* before.
C19_AsStated == IsLoaded => registries[last.path] = Saved

\* C19: after r.save(p) followed by r2.load(p), r2 holds exactly the keys r
\* had, nothing of what it held before, and under each key the entry of r as
\* JSON returns it: equal to r's entry when that holds no tuple, and with each
\* tuple turned into the list of its items otherwise.
C19_RoundTrip ==
    IsLoaded =>
        /\ DOMAIN registries[last.path] = DOMAIN Saved
        /\ registries[last.path] = AsLists(Saved)
        /\ ~HasTuple(Saved) => registries[last.path] = Saved

\* a registry that held a key the saved one lacks was loaded from the file of
\* a registry with an entry, and the key is gone
C19_Witness ==
    /\ IsLoaded
    /\ DOMAIN Saved # {}
    /\ DOMAIN last.value \ DOMAIN Saved # {}
    /\ DOMAIN registries[last.path] = DOMAIN Saved
    /\ ~HasTuple(Saved)

(***************************************************************************)
(* The registrars as a caller uses them: the overridden add_entry and      *)
(* update_entry, and the methods they inherit from Registry unchanged      *)
(* (delete_entry, save, load).  The entries of a registrar hold strings,   *)
(* integers, lists and dicts with string keys, which json writes and reads *)
(* back as they are.                                                       *)
(***************************************************************************)
\* a registrar whose add_entry is the one of Registry
Registrar_add_entry_inherited(registry, hash_key, entry) ==
    Registry_add_entry(registry, hash_key, entry)

\* SubmissionRegistry.add_entry and BulkArchiveRegistry.add_entry
Registrar_add_entry(registry, hash_key, entry) ==
    [raised |-> "AttributeError", registry |-> registry]

\* SubmissionRegistry.update_entry and BulkArchiveRegistry.update_entry
Registrar_update_entry(registry, hash_key, entry) ==
    [raised |-> "AttributeError", registry |-> registry]

\* Registry.load on a registrar
Registrar_load(registry, file_path) ==
    IF file_path \notin DOMAIN documents
    THEN [raised |-> "FileNotFoundError", registry |-> EmptyRegistry]
    ELSE [raised |-> "none", registry |-> documents[file_path].text]

Registrars == {"SubmissionRegistry", "BulkArchiveRegistry"}

RegistrarOf(which) == IF which = "SubmissionRegistry" THEN subReg ELSE bulkReg

\* the file each registrar is saved to
RegistrarDoc(which) == <<which>> \o DocPath

\* the keys a caller passes: the key of a submission file, the key of a bulk
\* archive file, the key of no file
DirectKeys == {<<"SHA256", "gzTex">>, <<"SHA256", "tarGood">>, <<"SHA256", "pdf">>}

DirectEntry == [metadata |-> [filename |-> "direct"], origin |-> [url |-> "direct"]]

InitRegistrar == Init

\* what a call of an inherited or overridden Registry method leaves behind
AfterRegistrarCall(op, r, which, arg) ==
    /\ subReg' = IF which = "SubmissionRegistry" THEN r.registry ELSE subReg
    /\ bulkReg' = IF which = "BulkArchiveRegistry" THEN r.registry ELSE bulkReg
    /\ last' = [op |-> op, path |-> <<which>>, arg |-> arg, raised |-> r.raised,
                why |-> "none", value |-> <<>>, repeat |-> FALSE]
    /\ UNCHANGED <<fs, dirs, clock, rejected, ncalls, manifests, handle, registries>>

DirectAddEntry(which, hash_key) ==
    /\ AfterRegistrarCall("add_entry",
                          Registrar_add_entry(RegistrarOf(which), hash_key, DirectEntry),
                          which, hash_key)
    /\ UNCHANGED documents

DirectUpdateEntry(which, hash_key) ==
    /\ AfterRegistrarCall("update_entry",
                          Registrar_update_entry(RegistrarOf(which), hash_key, DirectEntry),
                          which, hash_key)
    /\ UNCHANGED documents

DeleteRegistrarEntry(which, hash_key) ==
    /\ AfterRegistrarCall("delete_entry",
                          Registry_delete_entry(RegistrarOf(which), hash_key),
                          which, hash_key)
    /\ UNCHANGED documents

SaveRegistrar(which) ==
    /\ AfterRegistrarCall("save", [raised |-> "none", registry |-> RegistrarOf(which)],
                          which, RegistrarDoc(which))
    /\ documents' = [p \in DOMAIN documents \cup {RegistrarDoc(which)} |->
                        IF p = RegistrarDoc(which)
                        THEN [text |-> RegistrarOf(which), saved_from |-> RegistrarOf(which)]
                        ELSE documents[p]]

LoadRegistrar(which) ==
    /\ AfterRegistrarCall("load", Registrar_load(RegistrarOf(which), RegistrarDoc(which)),
                          which, RegistrarDoc(which))
    /\ UNCHANGED documents

NextRegistrar ==
    \/ \E p \in {PSubA, PSubCase}, k \in {<<"SHA256", "tarGood">>} : RegisterSubmission(p, k)
    \/ \E p \in {PBulkA} : RegisterBulkArchive(p)
    \/ \E which \in Registrars, k \in DirectKeys : DirectAddEntry(which, k)
    \/ \E which \in Registrars, k \in DirectKeys : DirectUpdateEntry(which, k)
    \/ \E which \in Registrars, k \in DirectKeys : DeleteRegistrarEntry(which, k)
    \/ \E which \in Registrars : SaveRegistrar(which)
    \/ \E which \in Registrars : LoadRegistrar(which)

SpecRegistrar == InitRegistrar /\ [][NextRegistrar]_vars

(***************************************************************************)
(* Properties of the registrars' inherited methods                         *)
(***************************************************************************)
\* the step is a direct call of add_entry or update_entry: it raises
\* AttributeError and changes neither registrar
DirectWriteRaises ==
    last'.op \in {"add_entry", "update_entry"} =>
        /\ last'.raised = "AttributeError"
        /\ subReg' = subReg
        /\ bulkReg' = bulkReg

\* the step adds a key to the registrar
SubmissionKeysGrow == DOMAIN subReg' \ DOMAIN subReg # {}

BulkArchiveKeysGrow == DOMAIN bulkReg' \ DOMAIN bulkReg # {}

Months == {<<"0", "0">>, <<"0", "1">>, <<"1", "2">>, <<"1", "3">>}

Endings == {<<>>, <<"\n">>}

BulkNames ==
    {prefix \o <<"9", "9">> \o mm \o <<"_">> \o seq \o ext \o ending :
        prefix \in {BulkPrefix, Lower(BulkPrefix)}, mm \in Months,
        seq \in {<<"0", "0", "5">>, <<"0", "5">>},
        ext \in {TarExt, <<".", "t", "g", "z">>}, ending \in Endings}

OldStyleNames ==
    {category \o <<"9", "6">> \o mm \o number \o ending \o ext :
        category \in {<<"c", "o", "n", "d", "-", "m", "a", "t">>, <<"H", "e", "p">>},
        mm \in Months, number \in {<<"1", "0", "1">>, <<"1">>}, ending \in Endings,
        ext \in {GzExt, PdfExt, TarExt}}

CurrentStyleNames ==
    {<<"1", "2">> \o mm \o <<".">> \o number \o ending \o ext :
        mm \in Months,
        number \in {<<"3", "0", "5", "4">>, <<"1", "2", "3", "4", "5">>, <<"3", "0", "5">>},
        ending \in Endings, ext \in {GzExt, PdfExt}}

SubmissionNames == OldStyleNames \cup CurrentStyleNames

InitNames ==
    /\ fs = EmptyRegistry
    /\ dirs = {}
    /\ clock = 0
    /\ subReg = EmptyRegistry
    /\ bulkReg = EmptyRegistry
    /\ rejected = EmptyRegistry
    /\ last = NoCall
    /\ ncalls = 0
    /\ manifests = EmptyRegistry
    /\ handle = NoHandle
    /\ registries = EmptyRegistry
    /\ documents = EmptyRegistry

\* each name function is applied once, to a name of the caller's choice
AfterNameCall(op, value, filename) ==
    /\ last.op = "none"
    /\ last' = [op |-> op, path |-> filename, arg |-> <<>>, raised |-> "none",
                why |-> "none", value |-> value, repeat |-> FALSE]
    /\ UNCHANGED <<fs, dirs, clock, subReg, bulkReg, rejected, ncalls, manifests, handle,
                   registries, documents>>

ParseBulkArchiveFilename(filename) ==
    /\ filename \in BulkNames
    /\ AfterNameCall("parse_bulk_archive_filename", parse_bulk_archive_filename(filename),
                     filename)

IsBulkArchiveFilename(filename) ==
    /\ filename \in BulkNames
    /\ AfterNameCall("is_bulk_archive_filename", is_bulk_archive_filename(filename),
                     filename)

ParseOldStyleSubmissionFilename(filename) ==
    /\ filename \in SubmissionNames
    /\ AfterNameCall("parse_old_style_submission_filename",
                     parse_old_style_submission_filename(filename), filename)

ParseCurrentStyleSubmissionFilename(filename) ==
    /\ filename \in SubmissionNames
    /\ AfterNameCall("parse_current_style_submission_filename",
                     parse_current_style_submission_filename(filename), filename)

IsSubmissionFilename(filename) ==
    /\ filename \in SubmissionNames
    /\ AfterNameCall("is_submission_filename", is_submission_filename(filename), filename)

\* the names above as a caller may pass them: bare, or under a directory
Directories == {<<>>, <<"/", "t", "m", "p", "/">>, <<".", "/">>}

PathedBulkNames == {dir \o n : dir \in Directories, n \in BulkNames}

PathedSubmissionNames == {dir \o n : dir \in Directories, n \in SubmissionNames}

\* what a call that returns text, or raises ValueError (NoMatch), leaves behind
AfterTextCall(op, text, filename) ==
    /\ last.op = "none"
    /\ last' = [op |-> op, path |-> filename, arg |-> <<>>,
                raised |-> IF text = NoMatch THEN "ValueError" ELSE "none",
                why |-> "none", value |-> text, repeat |-> FALSE]
    /\ UNCHANGED <<fs, dirs, clock, subReg, bulkReg, rejected, ncalls, manifests, handle,
                   registries, documents>>

GenerateUriForBulkArchiveFilename(filename) ==
    /\ filename \in PathedBulkNames
    /\ AfterTextCall("generate_uri_for_bulk_archive_filename",
                     generate_uri_for_bulk_archive_filename(filename), filename)

GenerateUrlForSubmissionFilename(filename) ==
    /\ filename \in PathedSubmissionNames
    /\ AfterTextCall("generate_url_for_submission_filename",
                     generate_url_for_submission_filename(filename), filename)

\* the member lists a caller passes to the type inference: up to MaxMembers
\* names with a TeX, PostScript, PDF, image, archive, unmapped or no extension
NmPdf == <<"a", ".", "p", "d", "f">>

NmPng == <<"f", ".", "p", "n", "g">>

TypedMembers == {NmPaperTex, NmFigPs, NmPdf, NmPng, NmReadme, NmAbsolute, NmSub1}

MaxMembers == 2

MemberLists == UNION {[1..n -> TypedMembers] : n \in 0..MaxMembers}

GetSubmissionTypeUsingExtension(submission_file_list) ==
    /\ last.op = "none"
    /\ last' = [op |-> "get_submission_type_using_extension", path |-> <<>>,
                arg |-> submission_file_list, raised |-> "none", why |-> "none",
                value |-> get_submission_type_using_extension(submission_file_list),
                repeat |-> FALSE]
    /\ UNCHANGED <<fs, dirs, clock, subReg, bulkReg, rejected, ncalls, manifests, handle,
                   registries, documents>>

NextNames ==
    \/ \E n \in BulkNames : ParseBulkArchiveFilename(n)
    \/ \E n \in BulkNames : IsBulkArchiveFilename(n)
    \/ \E n \in SubmissionNames : ParseOldStyleSubmissionFilename(n)
    \/ \E n \in SubmissionNames : ParseCurrentStyleSubmissionFilename(n)
    \/ \E n \in SubmissionNames : IsSubmissionFilename(n)
    \/ \E n \in PathedBulkNames : GenerateUriForBulkArchiveFilename(n)
    \/ \E n \in PathedSubmissionNames : GenerateUrlForSubmissionFilename(n)
    \/ \E l \in MemberLists : GetSubmissionTypeUsingExtension(l)

SpecNames == InitNames /\ [][NextNames]_vars

(***************************************************************************)
(* Properties of the name functions                                        *)
(***************************************************************************)
\* the grammars as the naming scheme writes them: the whole basename, the
\* fields at their places
BulkGrammar(b) ==
    /\ Len(b) = 22
    /\ SubSeq(b, 1, 10) = BulkPrefix
    /\ AllDigits(SubSeq(b, 11, 14))
    /\ b[15] = "_"
    /\ AllDigits(SubSeq(b, 16, 18))
    /\ SubSeq(b, 19, 22) = TarExt

\* the basename is stem + ext with ext .gz or .pdf
HasSubmissionExt(b, ext) == Len(b) > Len(ext) /\ SubSeq(b, Len(b) - Len(ext) + 1, Len(b)) = ext

StemOf(b) ==
    IF HasSubmissionExt(b, GzExt) THEN SubSeq(b, 1, Len(b) - 3)
    ELSE IF HasSubmissionExt(b, PdfExt) THEN SubSeq(b, 1, Len(b) - 4)
    ELSE <<>>

OldStyleGrammar(b) ==
    LET stem == StemOf(b)
    IN  /\ Len(stem) >= 8
        /\ AllDigits(SubSeq(stem, Len(stem) - 6, Len(stem)))
        /\ \A i \in 1..(Len(stem) - 7) : IsLower(stem[i]) \/ stem[i] = "-"

CurrentStyleGrammar(b) ==
    LET stem == StemOf(b)
    IN  /\ Len(stem) \in {9, 10}
        /\ AllDigits(SubSeq(stem, 1, 4))
        /\ stem[5] = "."
        /\ AllDigits(SubSeq(stem, 6, Len(stem)))

MonthOk(mm) == 1 <= IntOf2(mm) /\ IntOf2(mm) <= 12

\* a name is valid by the naming scheme
ValidBulkName(b) == BulkGrammar(b) /\ MonthOk(SubSeq(b, 13, 14))

ValidSubmissionName(b) ==
    \/ OldStyleGrammar(b) /\ MonthOk(SubSeq(StemOf(b), Len(StemOf(b)) - 4, Len(StemOf(b)) - 3))
    \/ CurrentStyleGrammar(b) /\ MonthOk(SubSeq(StemOf(b), 3, 4))

\* C20 as stated: is_bulk_archive_filename(n) is True iff basename(n) matches
\* arXiv_src_{yy}{mm}_{3 digits}.tar and 01 <= mm <= 12; is_submission_filename(n)
\* is True iff basename(n) matches the old-style or the current-style grammar
\* and 01 <= mm <= 12; parse_bulk_archive_filename returns the captured fields
\* for every name of the grammar, whatever the two-digit month.
C20_AsStated ==
    /\ last.op = "is_bulk_archive_filename" => last.value = ValidBulkName(last.path)
    /\ last.op = "is_submission_filename" => last.value = ValidSubmissionName(last.path)
    /\ last.op = "parse_bulk_archive_filename" =>
           IF BulkGrammar(last.path)
           THEN last.value = <<SubSeq(last.path, 11, 12), SubSeq(last.path, 13, 14),
                               SubSeq(last.path, 16, 18)>>
           ELSE last.value = NoMatch

\* a bulk archive name followed by a newline was found valid
C20_Failure ==
    /\ last.op = "is_bulk_archive_filename"
    /\ ~BulkGrammar(last.path)
    /\ last.path[Len(last.path)] = "\n"
    /\ last.value = TRUE

\* with the names that end in a newline left aside the functions agree with
\* the naming scheme, and a parse with month 13 succeeds on an invalid name
NamesAgreeButNewline ==
    (last.op # "none" /\ \A i \in DOMAIN last.path : last.path[i] # "\n") => C20_AsStated

ParsesButInvalid ==
    /\ last.op = "parse_bulk_archive_filename"
    /\ last.value # NoMatch
    /\ ~is_bulk_archive_filename(last.path)
    /\ last.value[2] = <<"1", "3">>

HasDirectory(filename) == \E i \in DOMAIN filename : filename[i] = "/"

\* C21: for every valid bulk-archive name N, with or without a directory
\* path, generate_uri_for_bulk_archive_filename(N) is 's3://arxiv/src/'
\* followed by basename(N), and parse_bulk_archive_filename of that URI
\* yields the (yy, mm, seq) triple of N.
C21_UriRoundTrip ==
    (last.op = "generate_uri_for_bulk_archive_filename"
     /\ is_bulk_archive_filename(last.path)) =>
        /\ last.raised = "none"
        /\ last.value = BaseUri \o get_file_basename(last.path)
        /\ parse_bulk_archive_filename(last.value) # NoMatch
        /\ parse_bulk_archive_filename(last.value) = parse_bulk_archive_filename(last.path)

\* the URI of a valid name under a directory was generated: it has the
\* month 12 of the name and nothing of the directory
C21_Witness ==
    /\ last.op = "generate_uri_for_bulk_archive_filename"
    /\ HasDirectory(last.path)
    /\ last.raised = "none"
    /\ parse_bulk_archive_filename(last.value)[2] = <<"1", "2">>
    /\ Len(last.value) = Len(BaseUri) + 22

\* the URL the naming scheme gives the basename, NoMatch when the basename
\* is of neither grammar
SchemeUrl(b) ==
    LET stem == StemOf(b)
    IN  IF OldStyleGrammar(b)
        THEN BaseUrl \o SubSeq(stem, 1, Len(stem) - 7) \o <<"/">>
                     \o SubSeq(stem, Len(stem) - 6, Len(stem))
        ELSE IF CurrentStyleGrammar(b) THEN BaseUrl \o stem
        ELSE NoMatch

IsUrlCall == last.op = "generate_url_for_submission_filename"

\* C22 as stated: generate_url_for_submission_filename depends only on the
\* basename; it maps an old-style name to
\* https://arxiv.org/abs/{category}/{yy}{mm}{num} and a current-style name to
\* https://arxiv.org/abs/{yy}{mm}.{num}, and raises ValueError for every name
\* that matches neither grammar.
C22_AsStated ==
    IsUrlCall =>
        /\ last.value = generate_url_for_submission_filename(get_file_basename(last.path))
        /\ last.value = SchemeUrl(get_file_basename(last.path))
        /\ last.raised = "ValueError" <=> SchemeUrl(get_file_basename(last.path)) = NoMatch

\* a URL was returned for a name of neither grammar: the stem ends in a
\* newline
C22_Failure ==
    /\ IsUrlCall
    /\ last.raised = "none"
    /\ SchemeUrl(get_file_basename(last.path)) = NoMatch
    /\ \E i \in DOMAIN last.path : last.path[i] = "\n"

\* with the names that hold a newline left aside the URLs are those of the
\* naming scheme, under any directory
UrlsAgreeButNewline == (\A i \in DOMAIN last.path : last.path[i] # "\n") => C22_AsStated

\* the URL of cond-mat9602101-like and of 1202.3054-like names under a
\* directory were generated
UrlUnderDirectory ==
    /\ IsUrlCall
    /\ HasDirectory(last.path)
    /\ last.raised = "none"
    /\ OldStyleGrammar(get_file_basename(last.path))

\* the file types of the members of the latest type inference
T == MemberFileTypes(last.arg)

\* C23: over the set T of file types of the members (a member with no
\* recognised extension contributes UNKNOWN) the inferred type is POSTSCRIPT
\* iff T = {PS}; PDF iff T = {PDF}; TEX iff T holds a TeX/LaTeX main-file
\* type and every type of T is in the TeX-supporting set; UNKNOWN in every
\* other case, the empty member list included.
C23_TypeInference ==
    last.op = "get_submission_type_using_extension" =>
        /\ last.value \in {"POSTSCRIPT", "PDF", "TEX", "UNKNOWN"}
        /\ last.value = "POSTSCRIPT" <=> T = {"POSTSCRIPT_PS"}
        /\ last.value = "PDF" <=> T = {"PDF"}
        /\ last.value = "TEX" <=>
               ((\E t \in T : t \in {"TEX_TEX", "TEX_LATEX_209_MAIN", "TEX_LATEX_2E_MAIN"})
                /\ T \subseteq tex_supporting_types)
        /\ last.arg = <<>> => last.value = "UNKNOWN"

\* a TeX file next to an image was found to be a TeX submission
C23_Witness ==
    /\ last.op = "get_submission_type_using_extension"
    /\ last.arg = <<NmPaperTex, NmPng>>
    /\ last.value = "TEX"

\* a TeX file next to a file of unmapped extension is UNKNOWN
TexWithStranger ==
    /\ last.op = "get_submission_type_using_extension"
    /\ last.arg = <<NmPaperTex, NmReadme>>
    /\ last.value = "UNKNOWN"

(***************************************************************************)
(* The validation pipelines and generate_registry_entry at work            *)
(***************************************************************************)
\* the files the pipelines are given: those of the registrars and a PDF
EntryFiles == RegistrarFiles @@ (PSubPdf :> File("pdf"))

\* the paths whose bytes the environment replaces, and the bytes it writes
WrittenPaths == {PSubA, PSubPdf, PSubBadMonth, PBulkA}

WrittenContents == {"gzTex", "gzNoName", "tgzCase", "tgzPlain", "pdf", "tarGood"}

InitEntry ==
    /\ fs = EntryFiles
    /\ dirs = {RootDir}
    /\ clock = 0
    /\ subReg = EmptyRegistry
    /\ bulkReg = EmptyRegistry
    /\ rejected = EmptyRegistry
    /\ last = NoCall
    /\ ncalls = 0
    /\ manifests = EmptyRegistry
    /\ handle = NoHandle
    /\ registries = EmptyRegistry
    /\ documents = EmptyRegistry

\* SubmissionHandler.generate_registry_entry, whole: the file test, then
\* check_submission, then the URL (ValueError for a name of neither grammar)
Submission_generate_registry_entry_call(file_path, bulk_archive_key) ==
    IF ~is_file(file_path) THEN Raised("FileNotFoundError")
    ELSE IF UrlTable[file_path] = NoMatch THEN Raised("ValueError")
    ELSE Returned(Submission_generate_registry_entry(file_path, bulk_archive_key))

\* what a call of one of the handlers' functions leaves behind
AfterEntryCall(op, r, file_path, arg) ==
    /\ last' = [op |-> op, path |-> file_path, arg |-> arg, raised |-> r.raised,
                why |-> "none", value |-> r.value, repeat |-> IsRepeat(op, file_path, arg)]
    /\ UNCHANGED <<fs, dirs, clock, subReg, bulkReg, rejected, ncalls, manifests, handle,
                   registries, documents>>

GenerateRegistryEntry(file_path, bulk_archive_key) ==
    /\ file_path \in SubmissionPaths
    /\ AfterEntryCall("generate_registry_entry",
                      Submission_generate_registry_entry_call(file_path, bulk_archive_key),
                      file_path, bulk_archive_key)

CheckSubmission(file_path) ==
    /\ file_path \in SubmissionPaths
    /\ AfterEntryCall("check_submission", Returned(check_submission(file_path)),
                      file_path, <<>>)

CheckBulkArchive(file_path) ==
    /\ file_path \in BulkPaths
    /\ AfterEntryCall("check_bulk_archive", Returned(check_bulk_archive(file_path)),
                      file_path, <<>>)

\* the environment replaces the bytes of a file
WriteFile(file_path, content) ==
    /\ clock < MaxTime
    /\ is_file(file_path)
    /\ clock' = clock + 1
    /\ fs' = [fs EXCEPT ![file_path] = [content |-> content, mtime |-> clock + 1]]
    /\ last' = [op |-> "write", path |-> file_path, arg |-> <<>>, raised |-> "none",
                why |-> "none", value |-> <<>>, repeat |-> FALSE]
    /\ UNCHANGED <<dirs, subReg, bulkReg, rejected, ncalls, manifests, handle, registries, documents>>

NextEntry ==
    \/ \E p \in SubmissionPaths, k \in ParentKeys : GenerateRegistryEntry(p, k)
    \/ \E p \in SubmissionPaths : CheckSubmission(p)
    \/ \E p \in BulkPaths : CheckBulkArchive(p)
    \/ \E p \in WrittenPaths, c \in WrittenContents : WriteFile(p, c)

SpecEntry == InitEntry /\ [][NextEntry]_vars

\* the latest step is a call of generate_registry_entry that returned
EntryReturned == last.op = "generate_registry_entry" /\ last.raised = "none"

\* the type the returned entry carries as submission_type_by_extension
TypeByExtension == last.value.entry.metadata.submission_type_by_extension

\* the returned error list holds the diagnostic
HasDiagnostic == InSeq(ErrUnknownType, last.value.errors)

\* C24: generate_registry_entry adds the diagnostic 'Unknown submission
\* type' iff check_submission found no error and the inferred type is
\* UNKNOWN; with errors of check_submission the type is UNKNOWN and the
\* returned errors are those errors, without the diagnostic.  So an entry of
\* type UNKNOWN comes with a non-empty error list, and an entry returned with
\* an empty error list has type PDF, POSTSCRIPT or TEX.
C24_Diagnostic ==
    EntryReturned =>
        /\ HasDiagnostic <=> (check_submission(last.path) = <<>> /\ TypeByExtension = "UNKNOWN")
        /\ check_submission(last.path) # <<>> =>
               /\ TypeByExtension = "UNKNOWN"
               /\ last.value.errors = check_submission(last.path)
        /\ TypeByExtension = "UNKNOWN" => last.value.errors # <<>>
        /\ last.value.errors = <<>> => TypeByExtension \in {"PDF", "POSTSCRIPT", "TEX"}

\* a gzip file without a stored name passed check_submission and came back
\* of type UNKNOWN with the diagnostic as its only error
C24_Witness ==
    /\ EntryReturned
    /\ check_submission(last.path) = <<>>
    /\ TypeByExtension = "UNKNOWN"
    /\ last.value.errors = <<ErrUnknownType>>

\* a file with errors of check_submission came back of type UNKNOWN
EntryWithErrors ==
    /\ EntryReturned
    /\ check_submission(last.path) # <<>>
    /\ TypeByExtension = "UNKNOWN"

\* entries of each known type were returned with an empty error list
EntryPdf == EntryReturned /\ TypeByExtension = "PDF" /\ last.value.errors = <<>>

EntryPostscript == EntryReturned /\ TypeByExtension = "POSTSCRIPT" /\ last.value.errors = <<>>

EntryTex == EntryReturned /\ TypeByExtension = "TEX" /\ last.value.errors = <<>>

(***************************************************************************)
(* The bulk-archive registrar over files that are rewritten                *)
(***************************************************************************)
\* the archives the environment rewrites, and the bytes it writes
RewrittenArchives == {PBulkA, PBulkB}

ArchiveContents == {"tarGood", "tarOther", "tarBadMember"}

InitBulk == InitEntry

RewriteBulkArchive(file_path, content) ==
    /\ file_path \in RewrittenArchives
    /\ WriteFile(file_path, content)

NextBulk ==
    \/ \E p \in BulkPaths : RegisterBulkArchive(p)
    \/ \E p \in RewrittenArchives, c \in ArchiveContents : RewriteBulkArchive(p, c)

SpecBulk == InitBulk /\ [][NextBulk]_vars

\* the step is a call of register_bulk_archive with a path whose basename is
\* the metadata.filename of a registered entry
CallOnRegisteredName ==
    /\ IsCall("register_bulk_archive")
    /\ find_bulk_archive_filename(bulkReg, last'.path) # {}

\* the call of the step raised ValueError, the filename being registered,
\* and left the registry as it was
RefusedByFilename ==
    /\ last'.raised = "ValueError"
    /\ last'.why = "already registered"
    /\ bulkReg' = bulkReg

\* no two entries of the registry share their metadata.filename
UniqueFilenames ==
    \A k1, k2 \in DOMAIN bulkReg :
        bulkReg[k1].metadata.filename = bulkReg[k2].metadata.filename => k1 = k2

\* C25 as stated: register_bulk_archive raises ValueError ('already
\* registered') whenever the registry holds an entry whose metadata.filename
\* is the basename of the path, leaving the registry unchanged, and after
\* every step no two entries share their metadata.filename.
C25_AsStated ==
    [][/\ CallOnRegisteredName => RefusedByFilename
       /\ UniqueFilenames']_vars

\* C25: for an existing file with a valid bulk-archive name whose basename
\* is the metadata.filename of a registered entry, register_bulk_archive
\* raises ValueError ('already registered') whatever the file holds by then,
\* leaving the registry unchanged; for a path without a file it raises
\* FileNotFoundError, the registry unchanged as well; and after every step
\* no two entries of the registry, empty at first, share their
\* metadata.filename.
C25_FilenameOnce ==
    [][/\ (CallOnRegisteredName /\ is_file(last'.path) /\ BulkArchiveNameTable[last'.path])
              => RefusedByFilename
       /\ (CallOnRegisteredName /\ ~is_file(last'.path))
              => (last'.raised = "FileNotFoundError" /\ bulkReg' = bulkReg)
       /\ UniqueFilenames']_vars

\* a registered archive was rewritten into one with an invalid member, and
\* the next registration of it was refused by its filename
C25_Witness ==
    /\ last.op = "register_bulk_archive"
    /\ last.why = "already registered"
    /\ is_file(last.path)
    /\ check_bulk_archive(last.path) # <<>>
    /\ find_bulk_archive_filename(bulkReg, last.path) # {}

\* two archives are registered
TwoArchives == Cardinality(DOMAIN bulkReg) = 2

\* a registered basename under a directory that holds no such file
RegisteredNameElsewhere ==
    /\ last.op = "register_bulk_archive"
    /\ last.raised = "FileNotFoundError"
    /\ find_bulk_archive_filename(bulkReg, last.path) # {}

\* the stages of check_submission and check_bulk_archive, in the order of
\* the code
Stages == <<"name", "existence", "type", "extraction", "members">>

\* the stage an error message belongs to
StageOf(e) ==
    IF e.msg \in {"Filename does not match submission pattern",
                  "Filename does not match bulk archive pattern"} THEN "name"
    ELSE IF e.msg = "File not found" THEN "existence"
    ELSE IF e.msg \in {"File extension type is not allowed", "File type not allowed",
                       "File format does not match file extension",
                       "File extension is not tar", "File format is not tar"} THEN "type"
    ELSE IF e \in {ErrFileNotFound, ErrNoDirectory, ErrNotUnique, ErrForbidden, ErrExists}
    THEN "extraction"
    ELSE IF e.msg = "Archive entries do not match submission filename pattern"
    THEN "members"
    ELSE "none"

\* the latest step is a call of one of the two validation pipelines
IsPipelineCall == last.op \in {"check_submission", "check_bulk_archive"}

IsBulkArchiveCheck == last.op = "check_bulk_archive"

\* the file of the latest call has the format the pipeline asks for
FormatFits ==
    IF IsBulkArchiveCheck
    THEN /\ InSeq("ARCHIVE_TAR", ExtensionTypesTable[last.path])
         /\ get_file_type_from_format(last.path) = "ARCHIVE_TAR"
    ELSE TypeErrors(ExtensionTypesTable[last.path],
                    get_file_type_from_format(last.path)) = <<>>

\* the file of the latest call is one the extraction stage is run on
IsExtracted ==
    IsBulkArchiveCheck \/ get_file_type_from_format(last.path) \in allowed_archive_file_types

\* what the stage, taken by itself, finds wrong with the path of the latest
\* call: a stage after the existence test looks at the file, so it finds
\* nothing where there is none
Fails(stage) ==
    CASE stage = "name" ->
           IF IsBulkArchiveCheck THEN ~BulkArchiveNameTable[last.path]
           ELSE ~SubmissionNameTable[last.path]
      [] stage = "existence" -> ~is_file(last.path)
      [] stage = "type" -> is_file(last.path) /\ ~FormatFits
      [] stage = "extraction" ->
           /\ is_file(last.path)
           /\ is_archive_format(last.path)
           /\ IsExtracted
           /\ check_extract_possible(last.path, default_extract_path).value # <<>>
      [] stage = "members" ->
           /\ is_file(last.path)
           /\ IsBulkArchiveCheck
           /\ InvalidEntriesFacts[fs[last.path].content] # <<>>

\* the positions in Stages of the stages that find something wrong
FailingStages == {i \in DOMAIN Stages : Fails(Stages[i])}

\* the first of them
FirstFailing == Stages[CHOOSE i \in FailingStages : \A j \in FailingStages : i <= j]

\* C26: check_submission and check_bulk_archive run their stages in the
\* order name pattern, file existence, extension/format agreement,
\* extraction safety and, for bulk archives, member names, and stop at the
\* first stage that reports an error: the returned list is empty iff no
\* stage finds an error, and otherwise every error of it belongs to the
\* first stage that does, whatever the later stages would have found.
C26_StagesInOrder ==
    IsPipelineCall =>
        /\ last.raised = "none"
        /\ last.value = <<>> <=> FailingStages = {}
        /\ \A i \in DOMAIN last.value : StageOf(last.value[i]) = FirstFailing

\* a bulk archive with a traversing member, which is no submission name
\* either, was reported for the extraction stage alone
C26_Witness ==
    /\ IsBulkArchiveCheck
    /\ Fails("extraction")
    /\ Fails("members")
    /\ last.value # <<>>
    /\ \A i \in DOMAIN last.value : StageOf(last.value[i]) = "extraction"

\* a submission that fails two stages was reported for the first alone
SubmissionFirstStage ==
    /\ last.op = "check_submission"
    /\ Cardinality(FailingStages) > 1
    /\ \A i \in DOMAIN last.value : StageOf(last.value[i]) = FirstFailing

\* each stage was the one reported
StageName == IsPipelineCall /\ last.value # <<>> /\ FirstFailing = "name"

StageExistence == IsPipelineCall /\ last.value # <<>> /\ FirstFailing = "existence"

StageType == IsPipelineCall /\ last.value # <<>> /\ FirstFailing = "type"

StageMembers == IsPipelineCall /\ last.value # <<>> /\ FirstFailing = "members"

(***************************************************************************)
(* The gzip member-name reader                                             *)
(*                                                                         *)
(* Here the content of a file is its bytes, a sequence of numbers 0..255.  *)
(* The files are put together from a 10-byte header, the bytes of an       *)
(* extra field, the bytes of a name field and a compressed body, whether   *)
(* or not the flags of the header announce the fields.                     *)
(***************************************************************************)
\* the header struct.unpack('<BBBBLBB', ...) takes apart: id1, id2,
\* compression, flags, four bytes of mtime, extra flags, os id
GzipHeader(id1, compression, flags) == <<id1, 139, compression, flags, 0, 0, 0, 0, 0, 3>>

\* an empty final deflate block, then the CRC32 and the size of no data
GzipBody == <<3, 0, 0, 0, 0, 0, 0, 0, 0, 0>>

HeaderFlags == {0, 4, 8, 12}

GzipHeaders ==
    {GzipHeader(id1, compression, flags) :
        id1 \in {31, 0}, compression \in {8, 7}, flags \in HeaderFlags}

\* a length of two little-endian bytes and the bytes after it: a field of
\* one byte, one of two bytes with a NUL, one cut short, a length cut short,
\* and a length of 256 with too few bytes
ExtraParts == {<<>>, <<1, 0, 65>>, <<2, 0, 65, 0>>, <<5, 0, 65>>, <<1>>, <<0, 1, 65, 0>>}

\* names with and without their NUL; 255 is a byte no UTF-8 text holds
NameParts == {<<>>, <<0>>, <<65, 0>>, <<65, 66, 0>>, <<65>>, <<65, 66>>, <<255, 0>>}

GzipBodies == {GzipBody, <<>>}

GzipFiles ==
    {h \o x \o n \o b : h \in GzipHeaders, x \in ExtraParts, n \in NameParts, b \in GzipBodies}
    \cup {<<>>, <<31, 139, 8>>}

GzPath == <<"x", ".", "g", "z">>

GzMissing == <<"n", "o", "n", "e", ".", "g", "z">>

\* flags & (1 << bit) != 0
IsFlagSet(flags, bit) == (flags \div (2 ^ bit)) % 2 = 1

\* file_handle.read(n) at offset pos: the bytes that are left, n at most
ReadBytes(bytes, pos, n) ==
    SubSeq(bytes, pos + 1, IF pos + n <= Len(bytes) THEN pos + n ELSE Len(bytes))

\* struct.unpack('<H', two bytes)
UnpackShort(two) == two[1] + 256 * two[2]

\* the offset of the first NUL at or after pos, the end of the file when
\* there is none
RECURSIVE FirstNul(_, _)
FirstNul(bytes, pos) ==
    IF pos >= Len(bytes) THEN Len(bytes)
    ELSE IF bytes[pos + 1] = 0 THEN pos
    ELSE FirstNul(bytes, pos + 1)

\* where the header fields end for the gzip module: it reads the length of
\* the extra field and the field itself in full (EOFError when the file
\* ends before), and the name up to its NUL or to the end of the file
FieldsEnd(bytes) ==
    LET flags == bytes[4]
        extra_end ==
            IF ~IsFlagSet(flags, 2) THEN 10
            ELSE IF Len(bytes) < 12 THEN -1
            ELSE IF Len(bytes) < 12 + UnpackShort(ReadBytes(bytes, 10, 2)) THEN -1
            ELSE 12 + UnpackShort(ReadBytes(bytes, 10, 2))
    IN  IF extra_end = -1 THEN -1
        ELSE IF ~IsFlagSet(flags, 3) THEN extra_end
        ELSE IF FirstNul(bytes, extra_end) >= Len(bytes) THEN Len(bytes)
        ELSE FirstNul(bytes, extra_end) + 1

\* gzip.open(path).read(1): "ok" when a byte, or the end of the data, was
\* read; BadGzipFile for bytes without the magic or with another method;
\* EOFError for a stream that ends early; "damaged" for compressed data
\* that is no deflate stream.  An empty file reads as the end of the data.
GzipRead(bytes) ==
    IF bytes = <<>> THEN "ok"
    ELSE IF ReadBytes(bytes, 0, 2) # <<31, 139>> THEN "BadGzipFile"
    ELSE IF Len(bytes) < 10 THEN "EOFError"
    ELSE IF bytes[3] # 8 THEN "BadGzipFile"
    ELSE IF FieldsEnd(bytes) = -1 THEN "EOFError"
    ELSE IF FieldsEnd(bytes) >= Len(bytes) THEN "EOFError"
    ELSE IF ReadBytes(bytes, FieldsEnd(bytes), Len(GzipBody)) = GzipBody THEN "ok"
    ELSE "damaged"

\* a test that looks at the magic and the method and at nothing after them
GzipFormatOutcomes_header_only(bytes) ==
    {Returned(Len(bytes) >= 3 /\ ReadBytes(bytes, 0, 3) = <<31, 139, 8>>)}

\* ArchiveHandler.is_gzip_format on the bytes of an existing file that is no
\* tar archive: what it returns or raises.  Only BadGzipFile is caught; the
\* error for damaged data is of the decompressor or an EOFError.
GzipFormatOutcomes(bytes) ==
    CASE GzipRead(bytes) = "ok" -> {Returned(TRUE)}
      [] GzipRead(bytes) = "BadGzipFile" -> {Returned(FALSE)}
      [] GzipRead(bytes) = "EOFError" -> {Raised("EOFError")}
      [] GzipRead(bytes) = "damaged" -> {Raised("zlib.error"), Raised("EOFError")}

\* the text of a byte below 128
Chr(byte) ==
    CASE byte = 65 -> "A"
      [] byte = 66 -> "B"
      [] OTHER -> "^"

\* bytes.decode(): UTF-8 text, UnicodeDecodeError for bytes that are none
Decode(name) ==
    IF \E i \in DOMAIN name : name[i] >= 128 THEN Raised("UnicodeDecodeError")
    ELSE Returned(<<[i \in DOMAIN name |-> Chr(name[i])]>>)

\* _list_gzip_contents from open() to the filename loop: the frame the call
\* goes on with (pc "name": in the loop at offset pos) or its outcome
ReadGzipHeader(bytes) ==
    LET header == ReadBytes(bytes, 0, 10)
        flags == header[4]
        length == ReadBytes(bytes, 10, 2)
        is_valid_compression_format == header[1] = 31 /\ header[2] = 139 /\ header[3] = 8
        Done(r) == [pc |-> "closed", pos |-> 0, out |-> r]
    IN  IF Len(header) < 10 THEN Done(Raised("struct.error"))
        ELSE IF ~is_valid_compression_format THEN Done(Returned(<<>>))
        ELSE IF IsFlagSet(flags, 2) /\ Len(length) < 2 THEN Done(Raised("struct.error"))
        ELSE IF ~IsFlagSet(flags, 3) THEN Done(Returned(<<>>))
        ELSE [pc |-> "name",
              pos |-> IF ~IsFlagSet(flags, 2) THEN 10
                      ELSE 12 + Len(ReadBytes(bytes, 12, UnpackShort(length))),
              out |-> Returned(<<>>)]

\* _list_gzip_contents up to the filename loop, with the two tests before
\* the file is opened
ListGzipStart(file_path, format) ==
    IF ~is_file(file_path)
    THEN [pc |-> "closed", pos |-> 0, out |-> Raised("FileNotFoundError")]
    ELSE IF format.raised # "none" THEN [pc |-> "closed", pos |-> 0, out |-> format]
    ELSE IF ~format.value THEN [pc |-> "closed", pos |-> 0, out |-> Raised("TypeError")]
    ELSE ReadGzipHeader(fs[file_path].content)

InitGzip ==
    /\ fs \in {(GzPath :> File(bytes)) : bytes \in GzipFiles}
    /\ dirs = {RootDir}
    /\ clock = 0
    /\ subReg = EmptyRegistry
    /\ bulkReg = EmptyRegistry
    /\ rejected = EmptyRegistry
    /\ last = NoCall
    /\ ncalls = 0
    /\ manifests = EmptyRegistry
    /\ handle = NoHandle
    /\ registries = EmptyRegistry
    /\ documents = EmptyRegistry

\* a step of the call: the frame it goes on with and what the call has
\* returned or raised by then
AfterGzipStep(file_path, pc, pos, name, out) ==
    /\ handle' = [pc |-> pc, pos |-> pos, name |-> name]
    /\ last' = [op |-> "_list_gzip_contents", path |-> file_path, arg |-> <<>>,
                raised |-> out.raised, why |-> pc, value |-> out.value, repeat |-> FALSE]
    /\ UNCHANGED <<fs, dirs, clock, subReg, bulkReg, rejected, ncalls, manifests,
                   registries, documents>>

\* the call, up to its return or to the filename loop
ListGzipContents(file_path) ==
    /\ handle.pc = "none"
    /\ \E format \in (IF is_file(file_path) THEN GzipFormatOutcomes(fs[file_path].content)
                      ELSE {Returned(FALSE)}) :
          LET frame == ListGzipStart(file_path, format)
          IN  AfterGzipStep(file_path, frame.pc, frame.pos, <<>>, frame.out)

\* one turn of iter(lambda: file_handle.read(1), b'\0'): a NUL ends the
\* loop and the name is decoded and returned; any other read, the empty one
\* at the end of the file included, is joined to the name and the loop goes on
ReadNameByte ==
    /\ handle.pc = "name"
    /\ LET byte == ReadBytes(fs[last.path].content, handle.pos, 1)
       IN  IF byte = <<0>>
           THEN AfterGzipStep(last.path, "closed", handle.pos + 1, handle.name,
                              Decode(handle.name))
           ELSE AfterGzipStep(last.path, "name", handle.pos + Len(byte),
                              handle.name \o byte, Returned(<<>>))

NextGzip ==
    \/ \E p \in {GzPath, GzMissing} : ListGzipContents(p)
    \/ ReadNameByte

SpecGzip == InitGzip /\ [][NextGzip]_vars

\* the call runs on: a blocking call is not left waiting
SpecGzipFair == SpecGzip /\ WF_vars(NextGzip)

\* the call has returned or raised
GzipCallEnded == handle.pc = "closed"

\* C27: _list_gzip_contents completes or raises on every finite file: the
\* call, the loop over the bytes of the filename field included, comes to
\* an end.
C27_Terminates == <>GzipCallEnded

\* the loop ran over the bytes of a name and ended at its NUL
C27_Witness ==
    /\ GzipCallEnded
    /\ last.raised = "none"
    /\ last.value = << <<"A", "B">> >>
    /\ handle.name = <<65, 66>>

\* a file whose name field has no NUL had the call end by raising
NameWithoutNul ==
    /\ GzipCallEnded
    /\ last.path = GzPath
    /\ GzipHeader(31, 8, 8) \o <<65, 66>> = fs[GzPath].content
    /\ last.raised = "EOFError"

\* while the loop runs a NUL lies ahead of the file handle: the format test
\* before the loop has let no file through whose name field lacks its NUL,
\* so the loop never comes to the end of the file, where it would not stop
NulAhead ==
    handle.pc = "name" =>
        FirstNul(fs[last.path].content, handle.pos) < Len(fs[last.path].content)

\* the bytes of the file the reader was called on
GzBytes == fs[GzPath].content

\* the call on the file has returned or raised
ListedFile == GzipCallEnded /\ last.path = GzPath

\* the file holds the 10 bytes of a header, and they fail the magic or the
\* compression-method test
HeaderFails ==
    /\ Len(GzBytes) >= 10
    /\ ~(GzBytes[1] = 31 /\ GzBytes[2] = 139 /\ GzBytes[3] = 8)

\* the file is a gzip stream the gzip module reads: magic, method, the
\* announced fields in full and a compressed body
WellFormed == Len(GzBytes) >= 10 /\ GzipRead(GzBytes) = "ok"

\* the offset after the header and, with bit 2 set, after the two bytes of
\* the length and the extra bytes they count
NameOffset ==
    IF IsFlagSet(GzBytes[4], 2) THEN 12 + UnpackShort(ReadBytes(GzBytes, 10, 2)) ELSE 10

\* the bytes from there up to the first NUL
StoredName == SubSeq(GzBytes, NameOffset + 1, FirstNul(GzBytes, NameOffset))

ReturnedList(names) == last.raised = "none" /\ last.value = names

\* C28 as stated: _list_gzip_contents returns an empty list, without
\* raising, when the 10-byte header fails the magic or the method test, and
\* also when bit 3 of the flags is clear; otherwise it returns one name, the
\* bytes up to the first NUL after the header and the skipped extra field.
C28_AsStated ==
    ListedFile =>
        /\ HeaderFails => ReturnedList(<<>>)
        /\ WellFormed =>
               IF ~IsFlagSet(GzBytes[4], 3) THEN ReturnedList(<<>>)
               ELSE Decode(StoredName).raised = "none" =>
                        ReturnedList(Decode(StoredName).value)

\* a file whose header fails the magic or the method test had the call
\* raise TypeError
C28_Failure ==
    /\ ListedFile
    /\ HeaderFails
    /\ last.raised = "TypeError"

\* what the reader does: a header that fails the magic or the method test
\* raises TypeError; a well-formed gzip file gives the empty list when bit 3
\* is clear and otherwise its one name, or UnicodeDecodeError for a name that
\* is no UTF-8 text
GzipListing ==
    ListedFile =>
        /\ HeaderFails => last.raised = "TypeError"
        /\ WellFormed =>
               IF ~IsFlagSet(GzBytes[4], 3) THEN ReturnedList(<<>>)
               ELSE IF Decode(StoredName).raised = "none"
               THEN ReturnedList(Decode(StoredName).value)
               ELSE last.raised = "UnicodeDecodeError"

\* a name was returned from behind an extra field
NameAfterExtraField ==
    /\ ListedFile
    /\ WellFormed
    /\ IsFlagSet(GzBytes[4], 2)
    /\ NameOffset = 13
    /\ ReturnedList(<< <<"A", "B">> >>)

\* a well-formed file without the name flag gave the empty list
NoNameFlag == ListedFile /\ WellFormed /\ ~IsFlagSet(GzBytes[4], 3) /\ ReturnedList(<<>>)

\* the latest step is a call a.is_newer_than(b)
IsOrderCall == last.op = "is_newer_than"

\* a.is_newer_than(b) returned True
ReturnedTrue == last.raised = "none" /\ last.value

\* what b.is_newer_than(a) does for the manifests of the latest call
Converse == is_newer_than(Other, Self)

\* the manifests c with b.is_newer_than(c) True, b the other manifest of the
\* latest call
OlderThanOther == {c \in Manifests : is_newer_than(Other, c) = Returned(TRUE)}

\* C29: is_newer_than is a strict order on the manifests it accepts:
\* a.is_newer_than(b) and b.is_newer_than(a) are never both True;
\* a.is_newer_than(b) raises iff b.is_newer_than(a) raises; and when
\* a.is_newer_than(b) and b.is_newer_than(c) return True, a.is_newer_than(c)
\* returns True without raising.
C29_StrictOrder ==
    IsOrderCall =>
        /\ ~(ReturnedTrue /\ Converse = Returned(TRUE))
        /\ last.raised # "none" <=> Converse.raised # "none"
        /\ ReturnedTrue =>
               \A c \in OlderThanOther : is_newer_than(Self, c) = Returned(TRUE)

\* a is newer than b, b is newer than some c, and b.is_newer_than(a) is False
C29_Witness ==
    /\ IsOrderCall
    /\ ReturnedTrue
    /\ OlderThanOther # {}
    /\ Converse = Returned(FALSE)

\* both orders of a pair of manifests raise
BothRaise == IsOrderCall /\ last.raised = "ValueError" /\ Converse.raised = "ValueError"

(***************************************************************************)
(* A load that finds no file                                               *)
(***************************************************************************)
\* the latest step is a call load(file_path) on a path that is no file
IsLoadOfMissing == last.op = "load" /\ last.arg \notin DOMAIN documents

\* C30: Registry.load on a path that is not an existing file raises
\* FileNotFoundError, and the registry is empty after the failed call whatever
\* entries it held before: the previous in-memory state is not preserved.
C30_FailedLoadClears ==
    IsLoadOfMissing =>
        /\ last.raised = "FileNotFoundError"
        /\ registries[last.path] = EmptyRegistry

\* a registry that held entries is empty after a load that raised
C30_Witness ==
    /\ IsLoadOfMissing
    /\ last.raised = "FileNotFoundError"
    /\ last.value # EmptyRegistry
    /\ registries[last.path] = EmptyRegistry

\* the other registry keeps its entries through the failed load
OtherRegistryKept ==
    /\ C30_Witness
    /\ \E id \in RegistryIds \ {last.path} : registries[id] # EmptyRegistry

\* load raises FileNotFoundError for a missing file only
FailedLoadIsOfMissing ==
    (last.op = "load" /\ last.raised # "none") => IsLoadOfMissing

====
